---- MODULE Spec2Model ----
(***************************************************************************)
(* A model of rust-redis: the RESP command layer (command.rs), the         *)
(* keyspace engine (db.rs), the AOF writer (aof.rs), the connection        *)
(* handler (server.rs, connection.rs) and the RESP parser (resp/).         *)
(*                                                                         *)
(* Text is a sequence of one-character strings (<<"S","E","T">>), so that  *)
(* parsing, upper-casing and decimal formatting are computed and not       *)
(* assumed.  The fixed messages the server itself emits are kept as one    *)
(* token (<<"ERR no such key">>): nothing in the program looks inside.     *)
(***************************************************************************)
EXTENDS Integers, Sequences, FiniteSets, TLC

(***************************************************************************)
(* Bounds of the model.                                                    *)
(***************************************************************************)
\* Width of the model's i64 / usize (the program's are 64 bits wide).
IntBits == 8
\* Time runs over 0..MaxTime seconds.
MaxTime == 2
\* Requests served in one behaviour of the sequential specification.
MaxReq == 2

I64Max == 2 ^ (IntBits - 1) - 1
I64Min == 0 - 2 ^ (IntBits - 1)
UsizeMax == 2 ^ IntBits - 1

(***************************************************************************)
(* Text helpers: str::parse, to_string, to_uppercase.                      *)
(***************************************************************************)
Digits == <<"0", "1", "2", "3", "4", "5", "6", "7", "8", "9">>
Lower == <<"a", "b", "c", "d", "e", "f", "g", "h", "i", "j", "k", "l", "m",
           "n", "o", "p", "q", "r", "s", "t", "u", "v", "w", "x", "y", "z">>
Upper == <<"A", "B", "C", "D", "E", "F", "G", "H", "I", "J", "K", "L", "M",
           "N", "O", "P", "Q", "R", "S", "T", "U", "V", "W", "X", "Y", "Z">>

IsDigit(c) == \E d \in 1..10 : Digits[d] = c
DigitVal(c) == (CHOOSE d \in 1..10 : Digits[d] = c) - 1

AllDigits(s) == Len(s) > 0 /\ \A i \in 1..Len(s) : IsDigit(s[i])

RECURSIVE DigitsValue(_)
DigitsValue(s) ==
    IF s = <<>> THEN 0
    ELSE 10 * DigitsValue(SubSeq(s, 1, Len(s) - 1)) + DigitVal(s[Len(s)])

\* No more digits than the widest value has: keeps the evaluation in range.
MaxDigits == IntBits

\* str::parse::<i64>: an optional sign, then decimal digits, within range.
ParseI64(s) ==
    LET signed == Len(s) > 0 /\ s[1] \in {"-", "+"}
        body == IF signed THEN Tail(s) ELSE s
        wellFormed == AllDigits(body) /\ Len(body) <= MaxDigits
        mag == IF wellFormed THEN DigitsValue(body) ELSE 0
        v == IF signed /\ s[1] = "-" THEN 0 - mag ELSE mag
    IN  IF wellFormed /\ v >= I64Min /\ v <= I64Max
        THEN [ok |-> TRUE, v |-> v]
        ELSE [ok |-> FALSE, v |-> 0]

\* str::parse::<usize>: an optional "+", then decimal digits, within range.
ParseUsize(s) ==
    LET body == IF Len(s) > 0 /\ s[1] = "+" THEN Tail(s) ELSE s
        wellFormed == AllDigits(body) /\ Len(body) <= MaxDigits
        v == IF wellFormed THEN DigitsValue(body) ELSE 0
    IN  IF wellFormed /\ v <= UsizeMax
        THEN [ok |-> TRUE, v |-> v]
        ELSE [ok |-> FALSE, v |-> 0]

\* str::parse::<f64>, restricted to the scores the keyspace of the model
\* uses: the integer literals (every one of them is an f64 literal).  The
\* other texts it accepts, "nan" among them, are scores of the skip list of
\* SpecSkip.
ParseF64(s) == ParseI64(s)

RECURSIVE NatDec(_)
NatDec(n) ==
    IF n < 10 THEN <<Digits[n + 1]>>
    ELSE NatDec(n \div 10) \o <<Digits[(n % 10) + 1]>>

\* i64::to_string
ToDec(n) == IF n < 0 THEN <<"-">> \o NatDec(0 - n) ELSE NatDec(n)

UpperChar(c) ==
    IF \E i \in 1..26 : Lower[i] = c
    THEN Upper[CHOOSE i \in 1..26 : Lower[i] = c]
    ELSE c

to_uppercase(s) == [i \in 1..Len(s) |-> UpperChar(s[i])]

(***************************************************************************)
(* resp::Frame.  Every frame has the same fields, so that any two frames   *)
(* can be compared.                                                        *)
(***************************************************************************)
Simple(s) == [t |-> "Simple", s |-> s, i |-> 0, a |-> <<>>]
Error(s) == [t |-> "Error", s |-> s, i |-> 0, a |-> <<>>]
Integer(i) == [t |-> "Integer", s |-> <<>>, i |-> i, a |-> <<>>]
Bulk(s) == [t |-> "Bulk", s |-> s, i |-> 0, a |-> <<>>]
Array(a) == [t |-> "Array", s |-> <<>>, i |-> 0, a |-> a]
Null == [t |-> "Null", s |-> <<>>, i |-> 0, a |-> <<>>]

WRONGTYPE == Error(<<"WRONGTYPE Operation against a key holding the wrong kind of value">>)
NotAnInteger == Error(<<"ERR value is not an integer">>)
OK == Simple(<<"O", "K">>)
PONG == Simple(<<"P", "O", "N", "G">>)

(***************************************************************************)
(* command.rs: Command and Command::try_from.  A command is a record with  *)
(* the same fields whatever its variant: op is the variant's name.         *)
(***************************************************************************)
Cmd(op, key, val, vals, field, num, num2) ==
    [op |-> op, key |-> key, val |-> val, vals |-> vals, field |-> field,
     num |-> num, num2 |-> num2]

NoCmd == Cmd("None", <<>>, <<>>, <<>>, <<>>, 0, 0)

Accept(cmd) == [ok |-> TRUE, cmd |-> cmd, err |-> <<>>]
Reject(msg) == [ok |-> FALSE, cmd |-> NoCmd, err |-> msg]

WrongArgs(name) == Reject(<<"ERR wrong number of arguments for '">> \o name \o <<"'">>)
NotString == Reject(<<"expected bulk or simple string">>)

\* frame_to_string and frame_to_bytes accept the same frames; the bytes of the
\* model are ASCII, on which from_utf8_lossy is the identity.
IsText(f) == f.t \in {"Bulk", "Simple"}
frame_to_string(f) == f.s
frame_to_bytes(f) == f.s

AllText(arr, lo) == \A i \in lo..Len(arr) : IsText(arr[i])
TextFrom(arr, lo) == [i \in 1..(Len(arr) - lo + 1) |-> frame_to_bytes(arr[i + lo - 1])]

\* The arms of try_from have five shapes; each is one operator here.
\* key only: GET, DEL, TTL, STRLEN, INCR, LPOP, RPOP, LLEN, ...
KeyArm(arr, name, op) ==
    IF Len(arr) # 2 THEN WrongArgs(name)
    ELSE IF ~IsText(arr[2]) THEN NotString
    ELSE Accept(Cmd(op, frame_to_string(arr[2]), <<>>, <<>>, <<>>, 0, 0))

\* key and one value: SET, APPEND, GETSET, ZREM
KeyValArm(arr, name, op) ==
    IF Len(arr) # 3 THEN WrongArgs(name)
    ELSE IF ~AllText(arr, 2) THEN NotString
    ELSE Accept(Cmd(op, frame_to_string(arr[2]), frame_to_bytes(arr[3]), <<>>, <<>>, 0, 0))

\* key and one or more values: LPUSH, RPUSH, SADD, SREM, HDEL
KeyValsArm(arr, name, op) ==
    IF Len(arr) < 3 THEN WrongArgs(name)
    ELSE IF ~AllText(arr, 2) THEN NotString
    ELSE Accept(Cmd(op, frame_to_string(arr[2]), <<>>, TextFrom(arr, 3), <<>>, 0, 0))

\* key and one number: EXPIRE, INCRBY, BRPOP
KeyNumArm(arr, name, op, parsed, msg) ==
    IF Len(arr) # 3 THEN WrongArgs(name)
    ELSE IF ~IsText(arr[2]) THEN NotString
    ELSE IF ~IsText(arr[3]) THEN NotString
    ELSE IF ~parsed.ok THEN Reject(msg)
    ELSE Accept(Cmd(op, frame_to_string(arr[2]), <<>>, <<>>, <<>>, parsed.v, 0))

N_PING == <<"P", "I", "N", "G">>
N_EXPIRE == <<"E", "X", "P", "I", "R", "E">>
N_TTL == <<"T", "T", "L">>
N_GET == <<"G", "E", "T">>
N_SET == <<"S", "E", "T">>
N_DEL == <<"D", "E", "L">>
N_APPEND == <<"A", "P", "P", "E", "N", "D">>
N_STRLEN == <<"S", "T", "R", "L", "E", "N">>
N_GETSET == <<"G", "E", "T", "S", "E", "T">>
N_INCR == <<"I", "N", "C", "R">>
N_INCRBY == <<"I", "N", "C", "R", "B", "Y">>
N_LPUSH == <<"L", "P", "U", "S", "H">>
N_LPOP == <<"L", "P", "O", "P">>
N_RPUSH == <<"R", "P", "U", "S", "H">>
N_RPOP == <<"R", "P", "O", "P">>
N_LLEN == <<"L", "L", "E", "N">>
N_BRPOP == <<"B", "R", "P", "O", "P">>
N_HSET == <<"H", "S", "E", "T">>
N_HGET == <<"H", "G", "E", "T">>
N_HDEL == <<"H", "D", "E", "L">>
N_SADD == <<"S", "A", "D", "D">>
N_SREM == <<"S", "R", "E", "M">>
N_SCARD == <<"S", "C", "A", "R", "D">>
N_ZADD == <<"Z", "A", "D", "D">>
N_ZREM == <<"Z", "R", "E", "M">>
N_ZCOUNT == <<"Z", "C", "O", "U", "N", "T">>
N_MSET == <<"M", "S", "E", "T">>
N_MGET == <<"M", "G", "E", "T">>
N_SUNION == <<"S", "U", "N", "I", "O", "N">>
N_SINTER == <<"S", "I", "N", "T", "E", "R">>
N_SDIFF == <<"S", "D", "I", "F", "F">>
N_LRANGE == <<"L", "R", "A", "N", "G", "E">>

NumArg(arr, i) == IF Len(arr) >= i /\ IsText(arr[i]) THEN frame_to_string(arr[i]) ELSE <<>>

HSetArm(arr) ==
    IF Len(arr) # 4 THEN WrongArgs(N_HSET)
    ELSE IF ~AllText(arr, 2) THEN NotString
    ELSE Accept(Cmd("HSet", frame_to_string(arr[2]), frame_to_bytes(arr[4]), <<>>,
                    frame_to_string(arr[3]), 0, 0))

HGetArm(arr) ==
    IF Len(arr) # 3 THEN WrongArgs(N_HGET)
    ELSE IF ~AllText(arr, 2) THEN NotString
    ELSE Accept(Cmd("HGet", frame_to_string(arr[2]), <<>>, <<>>, frame_to_string(arr[3]), 0, 0))

ZAddArm(arr) ==
    IF Len(arr) # 4 THEN WrongArgs(N_ZADD)
    ELSE IF ~IsText(arr[2]) THEN NotString
    ELSE IF ~IsText(arr[3]) THEN NotString
    ELSE IF ~ParseF64(frame_to_string(arr[3])).ok THEN Reject(<<"ERR score must be a float">>)
    ELSE IF ~IsText(arr[4]) THEN NotString
    ELSE Accept(Cmd("ZAdd", frame_to_string(arr[2]), frame_to_bytes(arr[4]), <<>>, <<>>,
                    ParseF64(frame_to_string(arr[3])).v, 0))

ZCountArm(arr) ==
    IF Len(arr) # 4 THEN WrongArgs(N_ZCOUNT)
    ELSE IF ~IsText(arr[2]) THEN NotString
    ELSE IF ~IsText(arr[3]) THEN NotString
    ELSE IF ~ParseF64(frame_to_string(arr[3])).ok THEN Reject(<<"ERR start must be a float">>)
    ELSE IF ~IsText(arr[4]) THEN NotString
    ELSE IF ~ParseF64(frame_to_string(arr[4])).ok THEN Reject(<<"ERR start must be a float">>)
    ELSE Accept(Cmd("ZCount", frame_to_string(arr[2]), <<>>, <<>>, <<>>,
                    ParseF64(frame_to_string(arr[3])).v, ParseF64(frame_to_string(arr[4])).v))

\* MSET: pairs of key and value; vals holds the pairs in order.
MSetArm(arr) ==
    IF Len(arr) < 3 \/ Len(arr) % 2 = 0 THEN WrongArgs(N_MSET)
    ELSE IF ~AllText(arr, 2) THEN NotString
    ELSE Accept(Cmd("MSet", <<>>, <<>>,
                    [i \in 1..((Len(arr) - 1) \div 2) |->
                        <<frame_to_string(arr[2 * i]), frame_to_bytes(arr[2 * i + 1])>>],
                    <<>>, 0, 0))

\* one or more keys: MGET, SUNION, SINTER, SDIFF; vals holds the keys.
KeysArm(arr, name, op) ==
    IF Len(arr) < 2 THEN WrongArgs(name)
    ELSE IF ~AllText(arr, 2) THEN NotString
    ELSE Accept(Cmd(op, <<>>, <<>>, TextFrom(arr, 2), <<>>, 0, 0))

\* key, start and stop: LRANGE
LRangeArm(arr) ==
    IF Len(arr) # 4 THEN WrongArgs(N_LRANGE)
    ELSE IF ~IsText(arr[2]) THEN NotString
    ELSE IF ~IsText(arr[3]) THEN NotString
    ELSE IF ~ParseI64(frame_to_string(arr[3])).ok THEN Reject(<<"ERR value is not an integer">>)
    ELSE IF ~IsText(arr[4]) THEN NotString
    ELSE IF ~ParseI64(frame_to_string(arr[4])).ok THEN Reject(<<"ERR value is not an integer">>)
    ELSE Accept(Cmd("LRange", frame_to_string(arr[2]), <<>>, <<>>, <<>>,
                    ParseI64(frame_to_string(arr[3])).v, ParseI64(frame_to_string(arr[4])).v))

\* Command::try_from, for the commands of the model.
TryFrom(frame) ==
    IF frame.t # "Array" THEN Reject(<<"expected array frame">>)
    ELSE IF frame.a = <<>> THEN Reject(<<"empty command">>)
    ELSE IF ~IsText(frame.a[1]) THEN Reject(<<"invalid command name">>)
    ELSE
      LET arr == frame.a
          name == to_uppercase(frame_to_string(arr[1]))
          notInt == <<"ERR value is not an integer">>
      IN  CASE name = N_PING -> Accept(Cmd("Ping", <<>>, <<>>, <<>>, <<>>, 0, 0))
            [] name = N_EXPIRE ->
                 KeyNumArm(arr, N_EXPIRE, "Expire", ParseUsize(NumArg(arr, 3)), notInt)
            [] name = N_TTL -> KeyArm(arr, N_TTL, "Ttl")
            [] name = N_GET -> KeyArm(arr, N_GET, "Get")
            [] name = N_SET -> KeyValArm(arr, N_SET, "Set")
            [] name = N_DEL -> KeyArm(arr, N_DEL, "Del")
            [] name = N_APPEND -> KeyValArm(arr, N_APPEND, "Append")
            [] name = N_STRLEN -> KeyArm(arr, N_STRLEN, "StrLen")
            [] name = N_GETSET -> KeyValArm(arr, N_GETSET, "GetSet")
            [] name = N_INCR -> KeyArm(arr, N_INCR, "Incr")
            [] name = N_INCRBY ->
                 KeyNumArm(arr, N_INCRBY, "IncrBy", ParseI64(NumArg(arr, 3)), notInt)
            [] name = N_LPUSH -> KeyValsArm(arr, N_LPUSH, "LPush")
            [] name = N_LPOP -> KeyArm(arr, N_LPOP, "LPop")
            [] name = N_RPUSH -> KeyValsArm(arr, N_RPUSH, "RPush")
            [] name = N_RPOP -> KeyArm(arr, N_RPOP, "RPop")
            [] name = N_LLEN -> KeyArm(arr, N_LLEN, "LLen")
            [] name = N_LRANGE -> LRangeArm(arr)
            [] name = N_BRPOP ->
                 KeyNumArm(arr, N_BRPOP, "BRPop", ParseUsize(NumArg(arr, 3)),
                           <<"ERR timeout must be integer">>)
            [] name = N_HSET -> HSetArm(arr)
            [] name = N_HGET -> HGetArm(arr)
            [] name = N_HDEL -> KeyValsArm(arr, N_HDEL, "HDel")
            [] name = N_SADD -> KeyValsArm(arr, N_SADD, "SAdd")
            [] name = N_SREM -> KeyValsArm(arr, N_SREM, "SRem")
            [] name = N_SCARD -> KeyArm(arr, N_SCARD, "SCard")
            [] name = N_ZADD -> ZAddArm(arr)
            [] name = N_ZREM -> KeyValArm(arr, N_ZREM, "ZRem")
            [] name = N_ZCOUNT -> ZCountArm(arr)
            [] name = N_MSET -> MSetArm(arr)
            [] name = N_MGET -> KeysArm(arr, N_MGET, "MGet")
            [] name = N_SUNION -> KeysArm(arr, N_SUNION, "SUnion")
            [] name = N_SINTER -> KeysArm(arr, N_SINTER, "SInter")
            [] name = N_SDIFF -> KeysArm(arr, N_SDIFF, "SDiff")
            [] OTHER -> Reject(<<"unknown command">>)

\* Command::is_write_for_aof: the commands whose request frame is journalled.
is_write_for_aof(cmd) ==
    cmd.op \in {"Set", "Del", "Append", "Incr", "IncrBy", "LPush", "RPush", "LPop", "RPop",
                "HSet", "HDel", "SAdd", "SRem", "ZAdd", "ZRem", "Expire", "MSet"}

(***************************************************************************)
(* value.rs, list.rs: Value.  Every value has the same fields; t is the    *)
(* variant.  NoValue stands for a key the map does not hold.  A list       *)
(* carries the identity n of its Notify; a hash is its set of (field,      *)
(* value) pairs, a sorted set its set of (score, member) pairs.            *)
(***************************************************************************)
Val(t, s, l, n, h, m, z) == [t |-> t, s |-> s, l |-> l, n |-> n, h |-> h, m |-> m, z |-> z]
NoValue == Val("None", <<>>, <<>>, 0, {}, {}, {})
StringV(s) == Val("String", s, <<>>, 0, {}, {}, {})
ListV(l, n) == Val("List", <<>>, l, n, {}, {}, {})
HashV(h) == Val("Hash", <<>>, <<>>, 0, h, {}, {})
SetV(m) == Val("Set", <<>>, <<>>, 0, {}, m, {})
ZSetV(z) == Val("ZSet", <<>>, <<>>, 0, {}, {}, z)

\* No entry in the TTL map.
NoTtl == -1

Range(s) == {s[i] : i \in 1..Len(s)}
Reverse(s) == [i \in 1..Len(s) |-> s[Len(s) + 1 - i]]
Max(a, b) == IF a >= b THEN a ELSE b
Min(a, b) == IF a <= b THEN a ELSE b

\* Two's-complement wrap-around of i64 arithmetic.
Wrap64(x) == ((x - I64Min) % (2 ^ IntBits)) + I64Min

(***************************************************************************)
(* db.rs: lazy expiration.                                                 *)
(***************************************************************************)
is_expired(ttlMap, key, now_) == ttlMap[key] # NoTtl /\ now_ >= ttlMap[key]

purge_expired(db, key) ==
    [inner |-> [db.inner EXCEPT ![key] = NoValue], ttl |-> [db.ttl EXCEPT ![key] = NoTtl]]

check_and_purge(db, key, now_) ==
    IF is_expired(db.ttl, key, now_)
    THEN [db |-> purge_expired(db, key), purged |-> TRUE]
    ELSE [db |-> db, purged |-> FALSE]

(***************************************************************************)
(* db.rs: what each command does while it holds the value-map lock.        *)
(* The result is the new map, the reply and the Notify it signalled (0:    *)
(* none).                                                                  *)
(***************************************************************************)
LR(inner_, reply, note) == [inner |-> inner_, reply |-> reply, note |-> note]

get_locked(m, key) ==
    CASE m[key].t = "String" -> LR(m, Bulk(m[key].s), 0)
      [] m[key].t = "None" -> LR(m, Null, 0)
      [] OTHER -> LR(m, WRONGTYPE, 0)

set_locked(m, key, val) == LR([m EXCEPT ![key] = StringV(val)], OK, 0)

append_locked(m, key, val) ==
    CASE m[key].t = "String" ->
           LR([m EXCEPT ![key] = StringV(m[key].s \o val)], Integer(Len(m[key].s \o val)), 0)
      [] m[key].t = "None" -> LR([m EXCEPT ![key] = StringV(val)], Integer(Len(val)), 0)
      [] OTHER -> LR(m, WRONGTYPE, 0)

strlen_locked(m, key) ==
    CASE m[key].t = "String" -> LR(m, Integer(Len(m[key].s)), 0)
      [] m[key].t = "None" -> LR(m, Integer(0), 0)
      [] OTHER -> LR(m, WRONGTYPE, 0)

\* The old value (or the error) is computed first; the insert follows in
\* every case.
getset_locked(m, key, val) ==
    LET old == CASE m[key].t = "String" -> Bulk(m[key].s)
                 [] m[key].t = "None" -> Null
                 [] OTHER -> WRONGTYPE
    IN  LR([m EXCEPT ![key] = StringV(val)], old, 0)

incrby_locked(m, key, amt) ==
    CASE m[key].t = "String" ->
           IF ParseI64(m[key].s).ok
           THEN LET new_val == Wrap64(ParseI64(m[key].s).v + amt)
                IN  LR([m EXCEPT ![key] = StringV(ToDec(new_val))], Integer(new_val), 0)
           ELSE LR(m, NotAnInteger, 0)
      [] m[key].t = "None" ->
           LR([m EXCEPT ![key] = StringV(ToDec(Wrap64(amt)))], Integer(Wrap64(amt)), 0)
      [] OTHER -> LR(m, WRONGTYPE, 0)

\* The increment computed and not stored.
incr_locked_unstored(m, key) == LR(m, incrby_locked(m, key, 1).reply, 0)

incr_locked(m, key) == incrby_locked(m, key, 1)

\* The values put at the head as one block, in the order of the request.
lpush_locked_block(m, key, vals, fresh) ==
    LET entry == IF m[key].t = "None" THEN ListV(<<>>, fresh) ELSE m[key]
    IN  IF entry.t = "List"
        THEN LR([m EXCEPT ![key] = ListV(vals \o entry.l, entry.n)],
                Integer(Len(vals) + Len(entry.l)), entry.n)
        ELSE LR(m, WRONGTYPE, 0)

\* entry(key).or_insert_with(ListState::new): fresh is the new list's Notify.
\* lpush: push_front value by value, then notify_one.
lpush_locked(m, key, vals, fresh) ==
    LET entry == IF m[key].t = "None" THEN ListV(<<>>, fresh) ELSE m[key]
    IN  IF entry.t = "List"
        THEN LR([m EXCEPT ![key] = ListV(Reverse(vals) \o entry.l, entry.n)],
                Integer(Len(vals) + Len(entry.l)), entry.n)
        ELSE LR(m, WRONGTYPE, 0)

rpush_locked(m, key, vals, fresh) ==
    LET entry == IF m[key].t = "None" THEN ListV(<<>>, fresh) ELSE m[key]
    IN  IF entry.t = "List"
        THEN LR([m EXCEPT ![key] = ListV(entry.l \o vals, entry.n)],
                Integer(Len(vals) + Len(entry.l)), entry.n)
        ELSE LR(m, WRONGTYPE, 0)

\* lrange: a negative index counts from the tail; both indices are raised
\* to 0; nothing when s > e or s >= len; e is lowered to len - 1; then the
\* elements s..e.
lrange_locked(m, key, start, end) ==
    CASE m[key].t = "List" ->
           LET len == Len(m[key].l)
               s == Max(IF start < 0 THEN len + start ELSE start, 0)
               e == Max(IF end < 0 THEN len + end ELSE end, 0)
               e2 == Min(e, len - 1)
           IN  IF s > e \/ s >= len THEN LR(m, Array(<<>>), 0)
               ELSE LR(m, Array([i \in 1..(e2 - s + 1) |-> Bulk(m[key].l[s + i])]), 0)
      [] m[key].t = "None" -> LR(m, Array(<<>>), 0)
      [] OTHER -> LR(m, WRONGTYPE, 0)

lpop_locked(m, key) ==
    CASE m[key].t = "List" ->
           IF m[key].l # <<>>
           THEN LR([m EXCEPT ![key] = ListV(Tail(m[key].l), m[key].n)], Bulk(Head(m[key].l)), 0)
           ELSE LR(m, Null, 0)
      [] m[key].t = "None" -> LR(m, Null, 0)
      [] OTHER -> LR(m, WRONGTYPE, 0)

\* The last element answered and left in the list.
rpop_locked_peek(m, key) ==
    CASE m[key].t = "List" ->
           IF m[key].l # <<>> THEN LR(m, Bulk(m[key].l[Len(m[key].l)]), 0) ELSE LR(m, Null, 0)
      [] m[key].t = "None" -> LR(m, Null, 0)
      [] OTHER -> LR(m, WRONGTYPE, 0)

\* rpop: pop_back under the write lock.
rpop_locked(m, key) ==
    CASE m[key].t = "List" ->
           IF m[key].l # <<>>
           THEN LR([m EXCEPT ![key] = ListV(SubSeq(m[key].l, 1, Len(m[key].l) - 1), m[key].n)],
                   Bulk(m[key].l[Len(m[key].l)]), 0)
           ELSE LR(m, Null, 0)
      [] m[key].t = "None" -> LR(m, Null, 0)
      [] OTHER -> LR(m, WRONGTYPE, 0)

llen_locked(m, key) ==
    CASE m[key].t = "List" -> LR(m, Integer(Len(m[key].l)), 0)
      [] m[key].t = "None" -> LR(m, Integer(0), 0)
      [] OTHER -> LR(m, WRONGTYPE, 0)

hset_locked(m, key, field, value) ==
    LET entry == IF m[key].t = "None" THEN HashV({}) ELSE m[key]
        existed == \E p \in entry.h : p[1] = field
    IN  IF entry.t = "Hash"
        THEN LR([m EXCEPT ![key] =
                    HashV({p \in entry.h : p[1] # field} \cup {<<field, value>>})],
                Integer(IF existed THEN 0 ELSE 1), 0)
        ELSE LR(m, WRONGTYPE, 0)

hget_locked(m, key, field) ==
    CASE m[key].t = "Hash" ->
           IF \E p \in m[key].h : p[1] = field
           THEN LR(m, Bulk((CHOOSE p \in m[key].h : p[1] = field)[2]), 0)
           ELSE LR(m, Null, 0)
      [] m[key].t = "None" -> LR(m, Null, 0)
      [] OTHER -> LR(m, WRONGTYPE, 0)

hdel_locked(m, key, fields) ==
    CASE m[key].t = "Hash" ->
           LR([m EXCEPT ![key] = HashV({p \in m[key].h : p[1] \notin Range(fields)})],
              Integer(Cardinality({p \in m[key].h : p[1] \in Range(fields)})), 0)
      [] m[key].t = "None" -> LR(m, Integer(0), 0)
      [] OTHER -> LR(m, WRONGTYPE, 0)

sadd_locked(m, key, members) ==
    LET entry == IF m[key].t = "None" THEN SetV({}) ELSE m[key]
    IN  IF entry.t = "Set"
        THEN LR([m EXCEPT ![key] = SetV(entry.m \cup Range(members))],
                Integer(Cardinality(Range(members) \ entry.m)), 0)
        ELSE LR(m, WRONGTYPE, 0)

srem_locked(m, key, members) ==
    CASE m[key].t = "Set" ->
           LR([m EXCEPT ![key] = SetV(m[key].m \ Range(members))],
              Integer(Cardinality(m[key].m \cap Range(members))), 0)
      [] m[key].t = "None" -> LR(m, Integer(0), 0)
      [] OTHER -> LR(m, WRONGTYPE, 0)

scard_locked(m, key) ==
    CASE m[key].t = "Set" -> LR(m, Integer(Cardinality(m[key].m)), 0)
      [] m[key].t = "None" -> LR(m, Integer(0), 0)
      [] OTHER -> LR(m, WRONGTYPE, 0)

\* SkipList::insert removes the member's node, if any, and links a new one.
zadd_locked(m, key, score, member) ==
    LET entry == IF m[key].t = "None" THEN ZSetV({}) ELSE m[key]
    IN  IF entry.t = "ZSet"
        THEN LR([m EXCEPT ![key] =
                    ZSetV({p \in entry.z : p[2] # member} \cup {<<score, member>>})],
                Integer(1), 0)
        ELSE LR(m, WRONGTYPE, 0)

zrem_locked(m, key, member) ==
    CASE m[key].t = "ZSet" ->
           LR([m EXCEPT ![key] = ZSetV({p \in m[key].z : p[2] # member})],
              Integer(IF \E p \in m[key].z : p[2] = member THEN 1 ELSE 0), 0)
      [] m[key].t = "None" -> LR(m, Integer(0), 0)
      [] OTHER -> LR(m, WRONGTYPE, 0)

\* zcount words its type error differently and answers Null for a missing key.
zcount_locked(m, key, min, max) ==
    CASE m[key].t = "ZSet" ->
           LR(m, Integer(Cardinality({p \in m[key].z : min <= p[1] /\ p[1] <= max})), 0)
      [] m[key].t = "None" -> LR(m, Null, 0)
      [] OTHER ->
           LR(m, Error(<<"WRONGTYPE Operation against a keyholding the wrong kind of value">>), 0)

\* One pass of brpop's loop under the write lock: popped says that the method
\* returns the reply; otherwise note is the Notify to wait on (0: none, the
\* key is absent and the method polls).
brpop_locked(m, key) ==
    CASE m[key].t = "List" ->
           IF m[key].l # <<>>
           THEN [inner |-> [m EXCEPT ![key] =
                               ListV(SubSeq(m[key].l, 1, Len(m[key].l) - 1), m[key].n)],
                 reply |-> Array(<<Bulk(key), Bulk(m[key].l[Len(m[key].l)])>>),
                 note |-> 0, done |-> TRUE]
           ELSE [inner |-> m, reply |-> Null, note |-> m[key].n, done |-> FALSE]
      [] m[key].t = "None" -> [inner |-> m, reply |-> Null, note |-> 0, done |-> FALSE]
      [] OTHER -> [inner |-> m, reply |-> WRONGTYPE, note |-> 0, done |-> TRUE]

\* mset: the inserts in order, all under one hold of the write lock.
RECURSIVE mset_inserts(_, _)
mset_inserts(m, kvs) ==
    IF kvs = <<>> THEN m
    ELSE mset_inserts([m EXCEPT ![Head(kvs)[1]] = StringV(Head(kvs)[2])], Tail(kvs))

\* An MSET that stores its first pair only.
mset_locked_first(m, kvs) == LR(mset_inserts(m, SubSeq(kvs, 1, 1)), OK, 0)

\* mset: every pair stored under one hold of the write lock.
mset_locked(m, kvs) == LR(mset_inserts(m, kvs), OK, 0)

\* mget: every key is read from the value map; the TTL map is not consulted.
mget_locked(m, keys) ==
    LR(m, Array([i \in 1..Len(keys) |-> get_locked(m, keys[i]).reply]), 0)

del_locked(m, key) ==
    LR([m EXCEPT ![key] = NoValue], Integer(IF m[key].t # "None" THEN 1 ELSE 0), 0)

\* The commands whose method starts with check_and_purge, and those among
\* them that return at once when the key was purged.
UsesPurge(op) ==
    op \notin {"Ping", "Expire", "Ttl", "MSet", "MGet", "SUnion", "SInter", "SDiff"}
ReturnsWhenPurged(op) ==
    op \in {"Get", "Del", "StrLen", "LPop", "RPop", "LLen", "LRange", "BRPop", "ZCount",
            "HGet", "HDel", "SRem", "SCard"}
PurgedReply(op) ==
    IF op \in {"Get", "LPop", "RPop", "BRPop", "HGet"} THEN Null
    ELSE IF op = "LRange" THEN Array(<<>>)
    ELSE Integer(0)

\* The locked section of each command that has exactly one.
Locked(m, cmd, fresh) ==
    CASE cmd.op = "Get" -> get_locked(m, cmd.key)
      [] cmd.op = "Set" -> set_locked(m, cmd.key, cmd.val)
      [] cmd.op = "Del" -> del_locked(m, cmd.key)
      [] cmd.op = "Append" -> append_locked(m, cmd.key, cmd.val)
      [] cmd.op = "StrLen" -> strlen_locked(m, cmd.key)
      [] cmd.op = "GetSet" -> getset_locked(m, cmd.key, cmd.val)
      [] cmd.op = "Incr" -> incr_locked(m, cmd.key)
      [] cmd.op = "IncrBy" -> incrby_locked(m, cmd.key, cmd.num)
      [] cmd.op = "LPush" -> lpush_locked(m, cmd.key, cmd.vals, fresh)
      [] cmd.op = "LPop" -> lpop_locked(m, cmd.key)
      [] cmd.op = "RPush" -> rpush_locked(m, cmd.key, cmd.vals, fresh)
      [] cmd.op = "RPop" -> rpop_locked(m, cmd.key)
      [] cmd.op = "LLen" -> llen_locked(m, cmd.key)
      [] cmd.op = "LRange" -> lrange_locked(m, cmd.key, cmd.num, cmd.num2)
      [] cmd.op = "HSet" -> hset_locked(m, cmd.key, cmd.field, cmd.val)
      [] cmd.op = "HGet" -> hget_locked(m, cmd.key, cmd.field)
      [] cmd.op = "HDel" -> hdel_locked(m, cmd.key, cmd.vals)
      [] cmd.op = "SAdd" -> sadd_locked(m, cmd.key, cmd.vals)
      [] cmd.op = "SRem" -> srem_locked(m, cmd.key, cmd.vals)
      [] cmd.op = "SCard" -> scard_locked(m, cmd.key)
      [] cmd.op = "ZAdd" -> zadd_locked(m, cmd.key, cmd.num, cmd.val)
      [] cmd.op = "ZRem" -> zrem_locked(m, cmd.key, cmd.val)
      [] cmd.op = "ZCount" -> zcount_locked(m, cmd.key, cmd.num, cmd.num2)
      [] cmd.op = "MSet" -> mset_locked(m, cmd.vals)
      [] cmd.op = "MGet" -> mget_locked(m, cmd.vals)
      [] OTHER -> LR(m, Null, 0)

(***************************************************************************)
(* db.rs: the methods run from start to end with no other task in between. *)
(* A database is [inner, ttl]; a result adds the reply.                    *)
(***************************************************************************)
DR(inner_, ttl_, reply) == [inner |-> inner_, ttl |-> ttl_, reply |-> reply]

expire(db, key, secs, now_) ==
    IF db.inner[key].t = "None" THEN DR(db.inner, db.ttl, Integer(0))
    ELSE DR(db.inner, [db.ttl EXCEPT ![key] = now_ + secs], Integer(1))

cmd_ttl(db, key, now_) ==
    IF db.inner[key].t = "None" THEN DR(db.inner, db.ttl, Integer(-2))
    ELSE IF db.ttl[key] = NoTtl THEN DR(db.inner, db.ttl, Integer(-1))
    ELSE IF now_ >= db.ttl[key] THEN DR(db.inner, db.ttl, Integer(-2))
    ELSE DR(db.inner, db.ttl, Integer(db.ttl[key] - now_))

del(db, key, now_) ==
    LET cp == check_and_purge(db, key, now_)
        r == del_locked(cp.db.inner, key)
    IN  IF cp.purged THEN DR(cp.db.inner, cp.db.ttl, Integer(0))
        ELSE DR(r.inner, [cp.db.ttl EXCEPT ![key] = NoTtl], r.reply)

\* brpop whose deadline has passed when it first looks (timeout 0): one pass.
brpop_once(db, key, now_) ==
    LET cp == check_and_purge(db, key, now_)
        r == brpop_locked(cp.db.inner, key)
    IN  IF cp.purged THEN DR(cp.db.inner, cp.db.ttl, Null)
        ELSE DR(r.inner, cp.db.ttl, r.reply)

\* The members of a set as the items of an Array reply.  A HashSet yields
\* its members in no particular order; the order here is an arbitrary one.
RECURSIVE SetToSeq(_)
SetToSeq(set) ==
    IF set = {} THEN <<>>
    ELSE LET x == CHOOSE y \in set : TRUE IN <<x>> \o SetToSeq(set \ {x})

Members(set) == Array([i \in 1..Cardinality(set) |-> Bulk(SetToSeq(set)[i])])

\* The keys of a list that hold a set, and the members of those sets.
HoldsSet(db, key) == db.inner[key].t = "Set"

\* sunion: a key that is expired is skipped, a key that holds no set is
\* ignored.
sunion(db, keys, now_) ==
    DR(db.inner, db.ttl,
       Members(UNION {db.inner[keys[i]].m :
                        i \in {j \in 1..Len(keys) :
                                  ~is_expired(db.ttl, keys[j], now_) /\ HoldsSet(db, keys[j])}}))

\* sinter: the base is the first key that is not expired and holds a set;
\* the second loop intersects it with the set of every key of the list.
sinter(db, keys, now_) ==
    LET live == {j \in 1..Len(keys) :
                   ~is_expired(db.ttl, keys[j], now_) /\ HoldsSet(db, keys[j])}
        base == db.inner[keys[CHOOSE j \in live : \A i \in live : j <= i]].m
        sets == {j \in 1..Len(keys) : HoldsSet(db, keys[j])}
    IN  IF live = {} THEN DR(db.inner, db.ttl, Array(<<>>))
        ELSE DR(db.inner, db.ttl,
                Members({x \in base : \A j \in sets : x \in db.inner[keys[j]].m}))

\* sdiff: only the first key is tested for expiry; the sets of the others
\* are taken from the value map as they are.
sdiff(db, keys, now_) ==
    LET base == IF HoldsSet(db, keys[1]) THEN db.inner[keys[1]].m ELSE {}
        rest == UNION {db.inner[keys[j]].m : j \in {i \in 2..Len(keys) : HoldsSet(db, keys[i])}}
    IN  IF is_expired(db.ttl, keys[1], now_) THEN DR(db.inner, db.ttl, Array(<<>>))
        ELSE DR(db.inner, db.ttl, Members(base \ rest))

\* The methods that take the value map's lock once and never the TTL map's.
MapOnly(op) == op \in {"MSet", "MGet"}

apply(db, cmd, now_, fresh) ==
    CASE cmd.op = "Ping" -> DR(db.inner, db.ttl, PONG)
      [] cmd.op = "Expire" -> expire(db, cmd.key, cmd.num, now_)
      [] cmd.op = "Ttl" -> cmd_ttl(db, cmd.key, now_)
      [] cmd.op = "Del" -> del(db, cmd.key, now_)
      [] cmd.op = "BRPop" -> brpop_once(db, cmd.key, now_)
      [] cmd.op = "SUnion" -> sunion(db, cmd.vals, now_)
      [] cmd.op = "SInter" -> sinter(db, cmd.vals, now_)
      [] cmd.op = "SDiff" -> sdiff(db, cmd.vals, now_)
      [] MapOnly(cmd.op) ->
           DR(Locked(db.inner, cmd, fresh).inner, db.ttl, Locked(db.inner, cmd, fresh).reply)
      [] OTHER ->
           LET cp == check_and_purge(db, cmd.key, now_)
               r == Locked(cp.db.inner, cmd, fresh)
           IN  IF cp.purged /\ ReturnsWhenPurged(cmd.op)
               THEN DR(cp.db.inner, cp.db.ttl, PurgedReply(cmd.op))
               ELSE DR(r.inner, cp.db.ttl, r.reply)

\* Did the command create a list (and with it a Notify)?
CreatedList(before, after, key) == before[key].t # "List" /\ after[key].t = "List"

(***************************************************************************)
(* expiration.rs: one pass of the sweeper.                                 *)
(***************************************************************************)
expired_keys(ttlMap, now_) == {k \in DOMAIN ttlMap : ttlMap[k] # NoTtl /\ now_ >= ttlMap[k]}

cleanup(db, now_) ==
    [inner |-> [k \in DOMAIN db.inner |->
                   IF k \in expired_keys(db.ttl, now_) THEN NoValue ELSE db.inner[k]],
     ttl |-> [k \in DOMAIN db.ttl |->
                 IF k \in expired_keys(db.ttl, now_) THEN NoTtl ELSE db.ttl[k]]]

(***************************************************************************)
(* aof.rs, main.rs: the journal.  The file is a sequence of records; a     *)
(* record is a request frame, torn when only a prefix of its bytes reached *)
(* the file.                                                               *)
(***************************************************************************)
Rec(f, torn) == [f |-> f, torn |-> torn]

\* append_frame returns Ok ("ok"), or an I/O error after none, a part or all
\* of the record's bytes reached the file.
AppendOutcomes == {"ok", "none", "torn", "full"}

append_frame(log, frame, out) ==
    CASE out \in {"ok", "full"} -> Append(log, Rec(frame, FALSE))
      [] out = "torn" -> Append(log, Rec(frame, TRUE))
      [] OTHER -> log

\* parse_frames_from_bytes: the frames up to the first one that is incomplete.
parse_frames_from_bytes(log) ==
    LET torn == {i \in 1..Len(log) : log[i].torn}
        n == IF torn = {} THEN Len(log) ELSE (CHOOSE i \in torn : \A j \in torn : i <= j) - 1
    IN  [i \in 1..n |-> log[i].f]

\* aof.rs 12-29: AofFsync and the words that select it.
Policies == {"always", "everysec", "no"}

Disk(policy, synced) == [policy |-> policy, synced |-> synced]

\* An append after which nothing is synced.
synced_after_unsynced(policy, out, synced, len) == synced

\* append_frame, lines 89-96: after write_all and flush, sync_data under
\* Always; an error on the way (out is not "ok") returns before it completes.
\* synced is the durable length before the call, len the file's length after.
synced_after(policy, out, synced, len) ==
    IF policy = "always" /\ out = "ok" THEN len ELSE synced

\* The Notify handed to the next list that is created.
NextFresh(before, after, fresh) ==
    IF \E k \in DOMAIN before : CreatedList(before, after, k) THEN fresh + 1 ELSE fresh

\* main: the frames of the journal applied in order at start-up, at time now_.
RECURSIVE replay(_, _, _, _)
replay(db, frames, now_, fresh) ==
    IF frames = <<>> THEN db
    ELSE LET p == TryFrom(Head(frames))
             r == IF p.ok THEN apply(db, p.cmd, now_, fresh) ELSE DR(db.inner, db.ttl, Null)
         IN  replay([inner |-> r.inner, ttl |-> r.ttl], Tail(frames), now_,
                    NextFresh(db.inner, r.inner, fresh))

(***************************************************************************)
(* server.rs: what the connection loop decides.                            *)
(***************************************************************************)
\* The condition without its test of the reply.
should_append_any(should_log, response) == should_log

\* line 27: the condition under which the request frame is journalled
should_append(should_log, response) == should_log /\ response.t # "Error"

\* A loop that ends when the append fails.
keeps_serving_append(out, wr) == wr /\ out = "ok"

\* lines 28-36: an Err of append_frame (out is not "ok") is logged and the loop
\* goes on; it ends only when write_frame fails (wr is false).
keeps_serving(out, wr) == wr

\* The reason sent as a Simple frame.
err_frame_simple(e) == Simple(<<"ERR ">> \o e)

\* line 40: the reply to a request the command layer rejects
err_frame(e) == Error(<<"ERR ">> \o e)

(***************************************************************************)
(* The requests of the model.                                              *)
(***************************************************************************)
Req(words) == Array([i \in 1..Len(words) |-> Bulk(words[i])])

K == <<"k">>
Keys == {K}

WellFormed ==
    { Req(<<N_PING>>), Req(<<N_GET, K>>), Req(<<<<"g", "e", "t">>, K>>),
      Req(<<N_SET, K, <<"5">>>>), Req(<<N_DEL, K>>), Req(<<N_APPEND, K, <<"1">>>>),
      Req(<<N_STRLEN, K>>), Req(<<N_GETSET, K, <<"b">>>>), Req(<<N_INCR, K>>),
      Req(<<N_INCRBY, K, <<"-", "2">>>>), Req(<<N_LPUSH, K, <<"a">>, <<"b">>>>),
      Req(<<N_LPOP, K>>), Req(<<N_RPUSH, K, <<"c">>>>), Req(<<N_RPOP, K>>),
      Req(<<N_LLEN, K>>), Req(<<N_BRPOP, K, <<"0">>>>),
      Req(<<N_HSET, K, <<"f">>, <<"a">>>>), Req(<<N_HGET, K, <<"f">>>>),
      Req(<<N_HDEL, K, <<"f">>, <<"f">>>>), Req(<<N_SADD, K, <<"a">>, <<"a">>>>),
      Req(<<N_SREM, K, <<"a">>>>), Req(<<N_SCARD, K>>),
      Req(<<N_ZADD, K, <<"1">>, <<"a">>>>), Req(<<N_ZREM, K, <<"a">>>>),
      Req(<<N_ZCOUNT, K, <<"0">>, <<"5">>>>), Req(<<N_EXPIRE, K, <<"1">>>>),
      Req(<<N_TTL, K>>) }

Malformed ==
    { Simple(N_PING), Array(<<>>), Array(<<Integer(1)>>), Req(<<N_GET>>),
      Req(<<<<"N", "O", "P", "E">>, K>>), Req(<<N_EXPIRE, K, <<"x">>>>),
      Req(<<N_INCRBY, K, <<"9", "9", "9">>>>), Array(<<Bulk(N_SET), Bulk(K), Integer(1)>>),
      Req(<<N_ZADD, K, <<"z">>, <<"a">>>>), Req(<<N_BRPOP, K, <<"-", "1">>>>) }

Requests == WellFormed \cup Malformed

(***************************************************************************)
(* State.                                                                  *)
(*   inner, ttl   Db: the value map and the TTL map                        *)
(*   nextId       the identity of the next Notify that is created          *)
(*   now          the clock (Instant::now), in seconds                     *)
(*   aof          the journal file                                         *)
(*   failed       the appends that failed so far                           *)
(*   disk         the fsync policy, and the length of the prefix of aof    *)
(*                that sync_data has put on the disk                       *)
(*   nreq, open, last   one connection served request by request: the      *)
(*                requests served, whether the loop still runs, and what   *)
(*                the last pass of the loop did                            *)
(*   pc, loc, hist, permits   tasks that run concurrently (below)          *)
(*   conn         the byte stream of one connection (below)                *)
(***************************************************************************)
VARIABLES inner, ttl, nextId, now, aof, failed, disk, nreq, open, last, pc, loc, hist, permits, conn

vars == <<inner, ttl, nextId, now, aof, failed, disk, nreq, open, last, pc, loc, hist, permits, conn>>
dbVars == <<inner, ttl, nextId>>
seqVars == <<nreq, open, last>>
taskVars == <<pc, loc, hist, permits>>

\* Append failures in one behaviour.
MaxFail == 1

Db0 == [inner |-> [k \in Keys |-> NoValue], ttl |-> [k \in Keys |-> NoTtl]]
Now == [inner |-> inner, ttl |-> ttl]

Pass(frame, parsed, reply, append, wrote) ==
    [frame |-> frame, parsed |-> parsed, reply |-> reply, append |-> append, wrote |-> wrote]

InitDb ==
    /\ inner = Db0.inner
    /\ ttl = Db0.ttl
    /\ nextId = 1
    /\ now = 0
    /\ aof = <<>>
    /\ failed = 0
    /\ disk = Disk("always", Len(aof))

Init ==
    /\ InitDb
    /\ nreq = 0
    /\ open = TRUE
    /\ last = Pass(Null, FALSE, Null, "skip", FALSE)
    /\ pc = <<>> /\ loc = <<>> /\ hist = <<>> /\ permits = {} /\ conn = <<>>

\* Command::try_from on each request of the model.
Parsed == [f \in Requests |-> TryFrom(f)]

\* server.rs, one pass of the connection loop on the request frame f, whose
\* parse is p and whose reply (with the keyspace after it) is r: out is what
\* append_frame does if it is called, wr whether write_frame succeeds.
ServeFrame(f, p, r, out, wr) ==
    LET logs == p.ok /\ should_append(is_write_for_aof(p.cmd), r.reply)
    IN  /\ logs \/ out = "ok"
        /\ out # "ok" => failed < MaxFail
        /\ inner' = r.inner
        /\ ttl' = r.ttl
        /\ nextId' = NextFresh(inner, r.inner, nextId)
        /\ aof' = IF logs THEN append_frame(aof, f, out) ELSE aof
        /\ failed' = IF out # "ok" THEN failed + 1 ELSE failed
        /\ disk' = IF logs
                   THEN [disk EXCEPT !.synced = synced_after(disk.policy, out, @, Len(aof'))]
                   ELSE disk
        /\ open' = keeps_serving(out, wr)
        /\ last' = Pass(f, p.ok, r.reply, IF logs THEN out ELSE "skip", wr)

Handle(f, p) ==
    IF p.ok THEN apply(Now, p.cmd, now, nextId) ELSE DR(inner, ttl, err_frame(p.err))

Serve ==
    /\ open
    /\ nreq < MaxReq
    /\ \E f \in Requests :
         \E r \in {Handle(f, Parsed[f])} :
           \E out \in AppendOutcomes, wr \in BOOLEAN : ServeFrame(f, Parsed[f], r, out, wr)
    /\ nreq' = nreq + 1
    /\ UNCHANGED <<now, taskVars, conn>>

Tick ==
    /\ now < MaxTime
    /\ now' = now + 1
    /\ UNCHANGED <<dbVars, aof, failed, disk, seqVars, taskVars, conn>>

\* expiration.rs: a pass of the sweeper that finds expired keys.
Sweep ==
    /\ expired_keys(ttl, now) # {}
    /\ inner' = cleanup(Now, now).inner
    /\ ttl' = cleanup(Now, now).ttl
    /\ UNCHANGED <<nextId, now, aof, failed, disk, seqVars, taskVars, conn>>

Next == Serve \/ Tick \/ Sweep

Spec == Init /\ [][Next]_vars

(***************************************************************************)
(* Properties of one connection served request by request (Spec).          *)
(***************************************************************************)
\* A step that serves the request last'.frame.
Served == nreq' = nreq + 1

\* The variant a command works on.
Expects(op) ==
    CASE op \in {"Get", "GetSet", "Append", "StrLen", "Incr", "IncrBy"} -> "String"
      [] op \in {"LPush", "LPop", "RPush", "RPop", "LLen", "BRPop"} -> "List"
      [] op \in {"HSet", "HGet", "HDel"} -> "Hash"
      [] op \in {"SAdd", "SRem", "SCard"} -> "Set"
      [] op \in {"ZAdd", "ZRem", "ZCount"} -> "ZSet"
      [] OTHER -> "Any"

\* The request f meets a live key of another variant than its command expects.
MeetsWrongVariant(f, m, t, now_) ==
    /\ Parsed[f].ok
    /\ Expects(Parsed[f].cmd.op) # "Any"
    /\ m[Parsed[f].cmd.key].t \notin {"None", Expects(Parsed[f].cmd.op)}
    /\ ~is_expired(t, Parsed[f].cmd.key, now_)

\* C1: a command that expects one variant, applied to an existing, unexpired
\* key that holds another, replies with an Error frame and leaves the value
\* map and the TTL map as they were.
C1_WrongTypeChangesNothing ==
    [][Served /\ MeetsWrongVariant(last'.frame, inner, ttl, now)
         => last'.reply.t = "Error" /\ inner' = inner /\ ttl' = ttl]_vars

\* C1, the reply: the Error frame is the WRONGTYPE frame, to the letter.
C1_WrongTypeReply ==
    [][Served /\ MeetsWrongVariant(last'.frame, inner, ttl, now)
         => last'.reply = WRONGTYPE]_vars

\* The read commands on the key k.
ReadCmds(k) ==
    { Cmd("Get", k, <<>>, <<>>, <<>>, 0, 0), Cmd("StrLen", k, <<>>, <<>>, <<>>, 0, 0),
      Cmd("LLen", k, <<>>, <<>>, <<>>, 0, 0), Cmd("HGet", k, <<>>, <<>>, <<"f">>, 0, 0),
      Cmd("SCard", k, <<>>, <<>>, <<>>, 0, 0), Cmd("ZCount", k, <<>>, <<>>, <<>>, 0, 5),
      Cmd("Ttl", k, <<>>, <<>>, <<>>, 0, 0) }

\* The keyspace a restart at the present moment builds from the journal.
Restarted == replay(Db0, parse_frames_from_bytes(aof), now, 1)

\* C5: when no append failed, every read command gets the same reply from the
\* keyspace rebuilt from the journal as from the live keyspace.
C5_ReplayAnswersAlike ==
    failed = 0 =>
        \A k \in Keys : \A c \in ReadCmds(k) :
            apply(Restarted, c, now, 1).reply = apply(Now, c, now, 1).reply

\* The command of the request f is one of the journalled commands and r is
\* not an Error.
Journalled(f, r) ==
    /\ Parsed[f].ok
    /\ is_write_for_aof(Parsed[f].cmd)
    /\ r.t # "Error"

\* C6 as the specification words it: a served request appends exactly one
\* record, its own frame, if it is a journalled command with a non-Error
\* reply, and nothing otherwise.
C6_ExactlyOneRecord ==
    [][Served =>
         aof' = IF Journalled(last'.frame, last'.reply)
                THEN Append(aof, Rec(last'.frame, FALSE))
                ELSE aof]_vars

\* C6, amended: a request that is no journalled command, or whose reply is an
\* Error, appends nothing; a journalled command with a non-Error reply
\* appends its own frame once when append_frame returns Ok, and at most once
\* (whole or torn) when append_frame fails.
C6_AtMostOneRecord ==
    [][Served =>
         IF Journalled(last'.frame, last'.reply)
         THEN /\ last'.append = "ok" => aof' = Append(aof, Rec(last'.frame, FALSE))
              /\ aof' \in {aof, Append(aof, Rec(last'.frame, FALSE)),
                           Append(aof, Rec(last'.frame, TRUE))}
         ELSE aof' = aof]_vars

\* A journalled command was served and its record is the journal's last.
C6_Witness ==
    /\ nreq > 0
    /\ Journalled(last.frame, last.reply)
    /\ last.append = "ok"
    /\ aof # <<>>
    /\ aof[Len(aof)] = Rec(last.frame, FALSE)

\* C10: a request that Command::try_from rejects is answered with one Error
\* frame ("ERR " and the reason), changes neither the value map nor the TTL
\* map nor the journal, and leaves the connection open when the reply could
\* be written.
C10_RejectedChangesNothing ==
    [][Served /\ ~Parsed[last'.frame].ok
         => /\ last'.reply.t = "Error"
            /\ last'.reply.s = <<"ERR ">> \o Parsed[last'.frame].err
            /\ inner' = inner /\ ttl' = ttl /\ aof' = aof
            /\ open' = last'.wrote]_vars

\* A rejected request was answered after an earlier request had changed the
\* keyspace, and the connection is still served.
C10_Witness ==
    /\ nreq = 2
    /\ ~Parsed[last.frame].ok
    /\ last.reply.t = "Error"
    /\ inner[K].t # "None"
    /\ open

(***************************************************************************)
(* Connections served concurrently.  Each client c is one task running     *)
(* the loop of server.rs on its own queue of request frames; a step is     *)
(* what the task does between two suspension points (a lock acquisition,   *)
(* the journal's mutex, the socket).                                       *)
(*   pc[c]    "read", "check", "purge", "locked", "expire_ttl", "append",  *)
(*            "write" and, inside brpop, "br_lock", "br_await", "br_wait", *)
(*            "br_poll", "br_sleep"                                        *)
(*   loc[c]   the task's locals                                            *)
(*   permits  the Notify objects that hold a stored permit                 *)
(*   hist     what happened: the journalled commands in the order they     *)
(*            were applied, the command behind each journal record, the    *)
(*            appends that returned, those that returned Ok, each client's *)
(*            replies, and how a push met a blocked brpop (Meets)          *)
(***************************************************************************)
\* Clients of the concurrent specifications.
NClients == 3
Clients == 1..NClients

NoDeadline == -1

Local(queue) ==
    [queue |-> queue, i |-> 0, cmd |-> NoCmd, reply |-> Null, deadline |-> NoDeadline,
     notify |-> 0, woken |-> FALSE]

Hist0 ==
    [applied |-> <<>>, appended |-> <<>>, finished |-> {}, okd |-> {},
     replies |-> [c \in Clients |-> <<>>], early |-> "no"]

Tag(c) == <<c, loc[c].i>>
Frame(c) == loc[c].queue[loc[c].i]

\* The step without the journal.
after_apply_skip(logs) == "write"

\* server.rs 27-33: after apply, the append if the frame is journalled, then
\* the reply.
after_apply(logs) == IF logs THEN "append" ELSE "write"

Logs(c, reply) == should_append(is_write_for_aof(loc[c].cmd), reply)

\* The task has its reply: it goes on to the journal or to the socket.
Finish(c, reply) ==
    /\ pc' = [pc EXCEPT ![c] = after_apply(Logs(c, reply))]
    /\ hist' = [hist EXCEPT !.applied = IF Logs(c, reply) THEN Append(@, Tag(c)) ELSE @]

\* The top of the loop: read_frame, Command::try_from and, for a frame that
\* is rejected, the error reply.
Dispatch(c) ==
    /\ pc[c] = "read"
    /\ loc[c].i < Len(loc[c].queue)
    /\ \E p \in {TryFrom(loc[c].queue[loc[c].i + 1])} :
         IF p.ok
         THEN /\ loc' = [loc EXCEPT ![c] =
                           [@ EXCEPT !.i = @ + 1, !.cmd = p.cmd, !.deadline = NoDeadline,
                                     !.notify = 0, !.woken = FALSE]]
              /\ pc' = [pc EXCEPT ![c] = IF UsesPurge(p.cmd.op) THEN "check" ELSE "locked"]
              /\ hist' = hist
         ELSE /\ loc' = [loc EXCEPT ![c].i = @ + 1]
              /\ hist' = [hist EXCEPT !.replies[c] = Append(@, err_frame(p.err))]
              /\ pc' = pc
    /\ UNCHANGED <<dbVars, now, aof, failed, disk, seqVars, permits, conn>>

\* check_and_purge, first half: is_expired under the TTL read lock.  brpop
\* takes its deadline right after its first check.
CheckExpired(c) ==
    /\ pc[c] = "check"
    /\ pc' = [pc EXCEPT ![c] =
                IF is_expired(ttl, loc[c].cmd.key, now) THEN "purge"
                ELSE IF loc[c].cmd.op = "BRPop" THEN "br_lock" ELSE "locked"]
    /\ loc' = [loc EXCEPT ![c].deadline =
                  IF loc[c].cmd.op = "BRPop" /\ @ = NoDeadline /\ ~is_expired(ttl, loc[c].cmd.key, now)
                  THEN now + loc[c].cmd.num ELSE @]
    /\ UNCHANGED <<dbVars, now, aof, failed, disk, seqVars, hist, permits, conn>>

\* check_and_purge, second half: purge_expired under both write locks.  brpop
\* returns Null whenever a check purged the key.
Purge(c) ==
    /\ pc[c] = "purge"
    /\ \E db \in {purge_expired(Now, loc[c].cmd.key)} :
         inner' = db.inner /\ ttl' = db.ttl
    /\ IF ReturnsWhenPurged(loc[c].cmd.op)
       THEN /\ loc' = [loc EXCEPT ![c].reply = PurgedReply(loc[c].cmd.op)]
            /\ Finish(c, PurgedReply(loc[c].cmd.op))
       ELSE /\ pc' = [pc EXCEPT ![c] = "locked"]
            /\ UNCHANGED <<loc, hist>>
    /\ UNCHANGED <<nextId, now, aof, failed, disk, seqVars, permits, conn>>

\* Notify::notify_one on the Notify id (0: no call) by the task c, whose
\* reply is r: a task waiting on it is woken, or else the permit is stored.
NotifyOne(c, id, r) ==
    LET waiting == {w \in Clients : pc[w] = "br_wait" /\ loc[w].notify = id /\ ~loc[w].woken}
    IN  IF id = 0 \/ waiting = {}
        THEN /\ loc' = [loc EXCEPT ![c].reply = r]
             /\ permits' = IF id = 0 THEN permits ELSE permits \cup {id}
        ELSE /\ \E w \in waiting : loc' = [loc EXCEPT ![c].reply = r, ![w].woken = TRUE]
             /\ permits' = permits

\* How a push on key meets a brpop that has found the list empty or absent
\* and whose deadline is still ahead: "suspended" when the brpop is parked in
\* notified() or in its sleep, "between" when it is between its look at the
\* list and its deadline check, "no" when there is no such brpop.
Meets(key) ==
    LET blocked(states) ==
            \E w \in Clients :
                pc[w] \in states /\ loc[w].cmd.key = key /\ now < loc[w].deadline
    IN  IF blocked({"br_wait", "br_sleep"}) THEN "suspended"
        ELSE IF blocked({"br_await", "br_poll"}) THEN "between"
        ELSE "no"

\* The locked section of a command that has one section.
LockedStep(c) ==
    /\ pc[c] = "locked"
    /\ loc[c].cmd.op \notin {"Expire", "Ttl", "Del", "BRPop", "Ping"}
    /\ \E r \in {Locked(inner, loc[c].cmd, nextId)} :
         /\ inner' = r.inner
         /\ nextId' = NextFresh(inner, r.inner, nextId)
         /\ NotifyOne(c, r.note, r.reply)
         /\ pc' = [pc EXCEPT ![c] = after_apply(Logs(c, r.reply))]
         /\ hist' = [hist EXCEPT
                       !.applied = IF Logs(c, r.reply) THEN Append(@, Tag(c)) ELSE @,
                       !.early = IF r.note # 0 /\ @ = "no" THEN Meets(loc[c].cmd.key) ELSE @]
    /\ UNCHANGED <<ttl, now, aof, failed, disk, seqVars, conn>>

\* expire, first half: contains_key under the value map's read lock.
ExpireCheck(c) ==
    /\ pc[c] = "locked"
    /\ loc[c].cmd.op = "Expire"
    /\ IF inner[loc[c].cmd.key].t = "None"
       THEN /\ loc' = [loc EXCEPT ![c].reply = Integer(0)]
            /\ Finish(c, Integer(0))
       ELSE /\ pc' = [pc EXCEPT ![c] = "expire_ttl"]
            /\ UNCHANGED <<loc, hist>>
    /\ UNCHANGED <<dbVars, now, aof, failed, disk, seqVars, permits, conn>>

\* expire, second half: the insert under the TTL write lock.
ExpireSet(c) ==
    /\ pc[c] = "expire_ttl"
    /\ ttl' = [ttl EXCEPT ![loc[c].cmd.key] = now + loc[c].cmd.num]
    /\ loc' = [loc EXCEPT ![c].reply = Integer(1)]
    /\ Finish(c, Integer(1))
    /\ UNCHANGED <<inner, nextId, now, aof, failed, disk, seqVars, permits, conn>>

\* aof.append_frame under the journal's mutex.
AppendStep(c) ==
    /\ pc[c] = "append"
    /\ \E out \in AppendOutcomes :
         /\ out # "ok" => failed < MaxFail
         /\ aof' = append_frame(aof, Frame(c), out)
         /\ failed' = IF out # "ok" THEN failed + 1 ELSE failed
         /\ disk' = [disk EXCEPT !.synced = synced_after(disk.policy, out, @, Len(aof'))]
         /\ hist' = [hist EXCEPT
                       !.appended = IF out = "none" THEN @ ELSE Append(@, Tag(c)),
                       !.finished = @ \cup {Tag(c)},
                       !.okd = IF out = "ok" THEN @ \cup {Tag(c)} ELSE @]
    /\ pc' = [pc EXCEPT ![c] = "write"]
    /\ UNCHANGED <<dbVars, now, seqVars, loc, permits, conn>>

\* conn.write_frame(&response)
WriteReply(c) ==
    /\ pc[c] = "write"
    /\ hist' = [hist EXCEPT !.replies[c] = Append(@, loc[c].reply)]
    /\ pc' = [pc EXCEPT ![c] = "read"]
    /\ UNCHANGED <<dbVars, now, aof, failed, disk, seqVars, loc, permits, conn>>

(***************************************************************************)
(* db.rs 521-587: brpop, step by step.                                     *)
(***************************************************************************)
\* brpop returns reply (it is not journalled).
BrReturn(c, reply) ==
    /\ loc' = [loc EXCEPT ![c].reply = reply]
    /\ pc' = [pc EXCEPT ![c] = "write"]

\* lines 530-553: one look at the list under the write lock
BrpopPass(c) ==
    /\ pc[c] = "br_lock"
    /\ \E r \in {brpop_locked(inner, loc[c].cmd.key)} :
         /\ inner' = r.inner
         /\ IF r.done
            THEN BrReturn(c, r.reply)
            ELSE /\ loc' = [loc EXCEPT ![c].notify = r.note]
                 /\ pc' = [pc EXCEPT ![c] = IF r.note # 0 THEN "br_await" ELSE "br_poll"]
    /\ UNCHANGED <<ttl, nextId, now, aof, failed, disk, seqVars, hist, permits, conn>>

\* lines 556-563: the deadline check, then the first poll of
\* timeout(remaining, notify.notified()): a stored permit is consumed at once,
\* otherwise the task is queued on the Notify
BrpopAwait(c) ==
    /\ pc[c] = "br_await"
    /\ IF now >= loc[c].deadline
       THEN BrReturn(c, Null) /\ permits' = permits
       ELSE IF loc[c].notify \in permits
       THEN /\ permits' = permits \ {loc[c].notify}
            /\ pc' = [pc EXCEPT ![c] = "check"]
            /\ loc' = loc
       ELSE /\ pc' = [pc EXCEPT ![c] = "br_wait"]
            /\ loc' = [loc EXCEPT ![c].woken = FALSE]
            /\ permits' = permits
    /\ UNCHANGED <<dbVars, now, aof, failed, disk, seqVars, hist, conn>>

\* line 563, Ok: the task was notified (the timeout polls notified() first)
BrpopWoken(c) ==
    /\ pc[c] = "br_wait"
    /\ loc[c].woken
    /\ pc' = [pc EXCEPT ![c] = "check"]
    /\ loc' = [loc EXCEPT ![c].woken = FALSE]
    /\ UNCHANGED <<dbVars, now, aof, failed, disk, seqVars, hist, permits, conn>>

\* lines 563-565, Err: the deadline passed with no notification
BrpopTimeout(c) ==
    /\ pc[c] = "br_wait"
    /\ ~loc[c].woken
    /\ now >= loc[c].deadline
    /\ BrReturn(c, Null)
    /\ UNCHANGED <<dbVars, now, aof, failed, disk, seqVars, hist, permits, conn>>

\* lines 574-581: no list under the key: the deadline check, then the sleep
BrpopPoll(c) ==
    /\ pc[c] = "br_poll"
    /\ IF now >= loc[c].deadline
       THEN BrReturn(c, Null)
       ELSE pc' = [pc EXCEPT ![c] = "br_sleep"] /\ loc' = loc
    /\ UNCHANGED <<dbVars, now, aof, failed, disk, seqVars, hist, permits, conn>>

\* lines 581-583: the sleep is over, on to check_and_purge and round the loop
BrpopSleepEnd(c) ==
    /\ pc[c] = "br_sleep"
    /\ pc' = [pc EXCEPT ![c] = "check"]
    /\ UNCHANGED <<dbVars, now, aof, failed, disk, seqVars, loc, hist, permits, conn>>

(***************************************************************************)
(* SpecTasks: clients that run SET, GET, INCR and EXPIRE concurrently.     *)
(***************************************************************************)
F_INCR == Req(<<N_INCR, K>>)
F_GET == Req(<<N_GET, K>>)
F_SET1 == Req(<<N_SET, K, <<"1">>>>)
F_SET2 == Req(<<N_SET, K, <<"2">>>>)
F_EXPIRE0 == Req(<<N_EXPIRE, K, <<"0">>>>)

\* n clients send INCR k, the others nothing.
IncrWork(n) == [c \in Clients |-> IF c <= n THEN <<F_INCR>> ELSE <<>>]

\* Two clients write k, one of them goes on to read it.
SetWork ==
    [c \in Clients |-> CASE c = 1 -> <<F_SET1, F_GET>> [] c = 2 -> <<F_SET2>> [] OTHER -> <<>>]

\* One client gives k a deadline while another increments it.
ExpireWork ==
    [c \in Clients |->
        CASE c = 1 -> <<F_SET1, F_EXPIRE0>> [] c = 2 -> <<F_INCR>> [] OTHER -> <<>>]

TaskWorkloads == {IncrWork(n) : n \in 2..NClients} \cup {SetWork, ExpireWork}

InitWith(work) ==
    /\ InitDb
    /\ nreq = 0
    /\ open = TRUE
    /\ last = Pass(Null, FALSE, Null, "skip", FALSE)
    /\ pc = [c \in Clients |-> "read"]
    /\ loc = [c \in Clients |-> Local(work[c])]
    /\ hist = Hist0
    /\ permits = {}
    /\ conn = <<>>

InitTasks == \E work \in TaskWorkloads : InitWith(work)

NextTasks ==
    \/ \E c \in Clients :
         \/ Dispatch(c)
         \/ CheckExpired(c)
         \/ Purge(c)
         \/ LockedStep(c)
         \/ ExpireCheck(c)
         \/ ExpireSet(c)
         \/ AppendStep(c)
         \/ WriteReply(c)
    \/ Tick

SpecTasks == InitTasks /\ [][NextTasks]_vars

AllDone == \A c \in Clients : pc[c] = "read" /\ loc[c].i = Len(loc[c].queue)

(***************************************************************************)
(* Properties of SpecTasks.                                                *)
(***************************************************************************)
IsWork(work) == \A c \in Clients : loc[c].queue = work[c]

\* C2: when n clients each send INCR on the absent key k, no two replies are
\* ever equal, and once all have replied the replies are exactly 1..n and GET
\* returns the decimal string of n.
C2_NoLostIncrement ==
    \A n \in 2..NClients :
        IsWork(IncrWork(n)) =>
            /\ \A c, d \in 1..n :
                 c # d /\ hist.replies[c] # <<>> /\ hist.replies[d] # <<>>
                     => hist.replies[c][1] # hist.replies[d][1]
            /\ AllDone =>
                 /\ \A c \in 1..n : Len(hist.replies[c]) = 1
                 /\ {hist.replies[c][1] : c \in 1..n} = {Integer(v) : v \in 1..n}
                 /\ apply(Now, Cmd("Get", K, <<>>, <<>>, <<>>, 0, 0), now, nextId).reply
                        = Bulk(ToDec(n))

\* All the clients have sent INCR k and have their replies.
C2_Witness ==
    /\ IsWork(IncrWork(NClients))
    /\ AllDone
    /\ inner[K] = StringV(ToDec(NClients))
    /\ \E c \in Clients : hist.replies[c] = <<Integer(NClients)>>

Pos(seq, x) == CHOOSE i \in 1..Len(seq) : seq[i] = x

\* C4: the records of two journalled commands of different connections are
\* in the journal in the order in which the commands were applied; and when
\* two clients have written k concurrently, replaying the journal gives k
\* the value the live keyspace has.
C4_JournalInApplyOrder ==
    /\ \A i, j \in 1..Len(hist.appended) :
         i < j /\ hist.appended[i][1] # hist.appended[j][1]
             => Pos(hist.applied, hist.appended[i]) < Pos(hist.applied, hist.appended[j])
    /\ IsWork(SetWork) /\ AllDone /\ failed = 0
           => replay(Db0, parse_frames_from_bytes(aof), now, 1).inner[K] = inner[K]

\* The journal holds the whole record of the command tag.
Recorded(tag) ==
    \E j \in 1..Len(hist.appended) : hist.appended[j] = tag /\ ~aof[j].torn

\* The reply to a journalled command is written only once its append has
\* returned.
ReplyAfterAppend ==
    \A tag \in Range(hist.applied) :
        Len(hist.replies[tag[1]]) >= tag[2] => tag \in hist.finished

F_BRPOP == Req(<<N_BRPOP, K, <<"1">>>>)
F_LPUSH == Req(<<N_LPUSH, K, <<"a">>>>)
F_RPUSH == Req(<<N_RPUSH, K, <<"a">>>>)
F_RPOP == Req(<<N_RPOP, K>>)

BrWork(push) ==
    [c \in Clients |-> CASE c = 1 -> <<F_BRPOP>> [] c = 2 -> <<push>> [] OTHER -> <<>>]

\* The key is absent, or holds a list emptied by RPOP (the push before it
\* left a permit in the list's Notify), or a list emptied by an earlier
\* BRPOP that the push woke (no permit).
InitBrpop ==
    \E push \in {F_LPUSH, F_RPUSH}, start \in {"absent", "permit", "nopermit"} :
        /\ inner = [k \in Keys |-> IF start = "absent" THEN NoValue ELSE ListV(<<>>, 1)]
        /\ ttl = Db0.ttl
        /\ nextId = IF start = "absent" THEN 1 ELSE 2
        /\ now = 0
        /\ aof = CASE start = "absent" -> <<>>
                  [] start = "permit" -> <<Rec(F_LPUSH, FALSE), Rec(F_RPOP, FALSE)>>
                  [] OTHER -> <<Rec(F_LPUSH, FALSE)>>
        /\ failed = 0
        /\ disk = Disk("always", Len(aof))
        /\ nreq = 0
        /\ open = TRUE
        /\ last = Pass(Null, FALSE, Null, "skip", FALSE)
        /\ pc = [c \in Clients |-> "read"]
        /\ loc = [c \in Clients |-> Local(BrWork(push)[c])]
        /\ hist = Hist0
        /\ permits = IF start = "permit" THEN {1} ELSE {}
        /\ conn = <<>>

NextBrpop ==
    \/ \E c \in Clients :
         \/ Dispatch(c)
         \/ CheckExpired(c)
         \/ LockedStep(c)
         \/ AppendStep(c)
         \/ WriteReply(c)
         \/ BrpopPass(c)
         \/ BrpopAwait(c)
         \/ BrpopWoken(c)
         \/ BrpopTimeout(c)
         \/ BrpopPoll(c)
         \/ BrpopSleepEnd(c)
    \/ Tick

SpecBrpop == InitBrpop /\ [][NextBrpop]_vars

\* The BRPOP of client 1 has been answered with r.
BrpopAnswered(r) == hist.replies[1] = <<r>>

Popped == Array(<<Bulk(K), Bulk(<<"a">>)>>)

\* C3: when the element was pushed while the BRPOP had found the list empty
\* or absent and its deadline was still ahead, the BRPOP is answered with
\* [k, element], never with Null, and the element is no longer in the list.
C3_PushInTimeIsReturned ==
    hist.early # "no" /\ hist.replies[1] # <<>>
        => BrpopAnswered(Popped) /\ inner[K].l = <<>>

\* The same for a push that finds the BRPOP parked in notified() or in its
\* sleep.
C3_PushToSuspendedIsReturned ==
    hist.early = "suspended" /\ hist.replies[1] # <<>>
        => BrpopAnswered(Popped) /\ inner[K].l = <<>>

(***************************************************************************)
(* resp/encoder.rs, resp/parser.rs: the codec, over sequences of bytes     *)
(* (one-character strings).                                                *)
(***************************************************************************)
CR == "\r"
LF == "\n"
CRLF == <<CR, LF>>

RECURSIVE encode_frame(_)
RECURSIVE encode_all(_)
encode_all(items) ==
    IF items = <<>> THEN <<>> ELSE encode_frame(Head(items)) \o encode_all(Tail(items))

encode_frame(f) ==
    CASE f.t = "Simple" -> <<"+">> \o f.s \o CRLF
      [] f.t = "Error" -> <<"-">> \o f.s \o CRLF
      [] f.t = "Integer" -> <<":">> \o ToDec(f.i) \o CRLF
      [] f.t = "Bulk" -> <<"$">> \o ToDec(Len(f.s)) \o CRLF \o f.s \o CRLF
      [] f.t = "Array" -> <<"*">> \o ToDec(Len(f.a)) \o CRLF \o encode_all(f.a)
      [] OTHER -> <<"$", "-", "1">> \o CRLF

\* The index of the first CR that an LF follows (0: there is none).
find_crlf(src) ==
    LET hits == {i \in 1..(Len(src) - 1) : src[i] = CR /\ src[i + 1] = LF}
    IN  IF hits = {} THEN 0 ELSE CHOOSE i \in hits : \A j \in hits : i <= j

\* The result of a parse: st is "Ok" (frame, bytes used), "Incomplete",
\* "Invalid", "Panic" (the parser panics in every build) or "Overflow" (a
\* panic where arithmetic overflow is checked; Invalid or Incomplete where
\* it wraps).
PR(st, frame, used) == [st |-> st, frame |-> frame, used |-> used]
Failed(st) == PR(st, Null, 0)

\* The line that follows the type byte.
Line(src) == SubSeq(src, 2, find_crlf(src) - 1)

parse_simple(src) ==
    IF find_crlf(src) = 0 THEN Failed("Incomplete")
    ELSE PR("Ok", Simple(Line(src)), find_crlf(src) + 1)

parse_error(src) ==
    IF find_crlf(src) = 0 THEN Failed("Incomplete")
    ELSE PR("Ok", Error(Line(src)), find_crlf(src) + 1)

parse_integer(src) ==
    IF find_crlf(src) = 0 THEN Failed("Incomplete")
    ELSE IF ~ParseI64(Line(src)).ok THEN Failed("Invalid")
    ELSE PR("Ok", Integer(ParseI64(Line(src)).v), find_crlf(src) + 1)

\* The bulk string read as a line: up to the first CRLF after the header.
parse_bulk_line(src) ==
    LET p == find_crlf(src)
        len == ParseI64(Line(src))
        rest == SubSeq(src, p + 2, Len(src))
        q == find_crlf(rest)
    IN  IF p = 0 THEN Failed("Incomplete")
        ELSE IF ~len.ok THEN Failed("Invalid")
        ELSE IF len.v = -1 THEN PR("Ok", Null, p + 1)
        ELSE IF q = 0 THEN Failed("Incomplete")
        ELSE PR("Ok", Bulk(SubSeq(rest, 1, q - 1)), p + 2 + q)

\* parse_bulk: the length line, then len bytes and a CRLF.
parse_bulk(src) ==
    LET p == find_crlf(src)
        len == ParseI64(Line(src))
    IN  IF p = 0 THEN Failed("Incomplete")
        ELSE IF ~len.ok THEN Failed("Invalid")
        ELSE IF len.v = -1 THEN PR("Ok", Null, p + 1)
        ELSE IF len.v = -2 THEN Failed("Panic")
        ELSE IF len.v < -2 THEN Failed("Overflow")
        ELSE IF Len(src) < p + 3 + len.v THEN Failed("Incomplete")
        ELSE IF SubSeq(src, p + 2 + len.v, p + 3 + len.v) # CRLF THEN Failed("Invalid")
        ELSE PR("Ok", Bulk(SubSeq(src, p + 2, p + 1 + len.v)), p + 3 + len.v)

RECURSIVE parse_frame(_)
RECURSIVE parse_items(_, _, _, _)
\* parse_array's loop: count items are still to be parsed after the first
\* used bytes of src.
parse_items(src, used, count, items) ==
    IF count = 0 THEN PR("Ok", Array(items), used)
    ELSE LET r == parse_frame(SubSeq(src, used + 1, Len(src)))
         IN  IF r.st # "Ok" THEN Failed(r.st)
             ELSE parse_items(src, used + r.used, count - 1, Append(items, r.frame))

parse_array(src) ==
    LET p == find_crlf(src)
        count == ParseI64(Line(src))
    IN  IF p = 0 THEN Failed("Incomplete")
        ELSE IF ~count.ok THEN Failed("Invalid")
        ELSE IF count.v = -1 THEN PR("Ok", Null, p + 1)
        ELSE IF count.v < -1 THEN Failed("Panic")
        ELSE parse_items(src, p + 1, count.v, <<>>)

parse_frame(src) ==
    IF src = <<>> THEN Failed("Incomplete")
    ELSE CASE src[1] = "+" -> parse_simple(src)
           [] src[1] = "-" -> parse_error(src)
           [] src[1] = ":" -> parse_integer(src)
           [] src[1] = "$" -> parse_bulk(src)
           [] src[1] = "*" -> parse_array(src)
           [] OTHER -> Failed("Invalid")

(***************************************************************************)
(* connection.rs, server.rs: one connection as a stream of bytes.          *)
(*   conn.script  the requests the client sends, as bytes                  *)
(*   conn.todo    the bytes the client has not sent yet                    *)
(*   conn.sock    bytes that arrived and that no read has taken            *)
(*   conn.eof     the client has shut down its sending side                *)
(*   conn.rbuf    the BufReader's buffer                                   *)
(*   conn.buf     read_frame's buf                                         *)
(*   conn.read    the bytes read_frame has taken from the reader so far    *)
(*   conn.at      the offset in the stream of the first byte of buf        *)
(*   conn.rpc     "first": at line 31; "loop": at line 39; "closed": the   *)
(*                loop of server.rs ended on Ok(None) or a failed write;   *)
(*                "failed": it ended on Err; "panicked": the task died     *)
(*   conn.out     the replies written, each with the offset of the frame   *)
(*                it answers                                               *)
(***************************************************************************)
\* line 43: the size of the chunk a read of the loop asks for
ChunkSize == 1024

Take(s, n) == SubSeq(s, 1, n)
Drop(s, n) == SubSeq(s, n + 1, Len(s))

RECURSIVE Flat(_)
Flat(chunks) == IF chunks = <<>> THEN <<>> ELSE Head(chunks) \o Flat(Tail(chunks))

S_Pipe ==
    << encode_frame(Req(<<N_PING>>)),
       encode_frame(Req(<<N_SET, K, <<"5">>>>)),
       encode_frame(Req(<<N_GET, K>>)) >>
S_Invalid == << <<":", "x", CR, LF>>, encode_frame(Req(<<N_PING>>)) >>
S_Panic == << <<"$", "-", "2", CR, LF>> >>
Scripts == {S_Pipe, S_Invalid, S_Panic}

\* A read of at most want bytes from the BufReader can return: there are
\* buffered bytes, bytes in the socket, or the end of the stream.
CanRead == conn.rbuf # <<>> \/ conn.sock # <<>> \/ conn.eof

\* The read: buffered bytes first; an empty buffer is filled with what the
\* socket holds (the buffer's capacity exceeds every stream of the model);
\* got = <<>> is a read of 0 bytes, the end of the stream.
BufRead(want) ==
    LET filled == IF conn.rbuf # <<>> THEN conn.rbuf ELSE conn.sock
        n == Min(want, Len(filled))
    IN  [got |-> Take(filled, n), rbuf |-> Drop(filled, n),
         sock |-> IF conn.rbuf # <<>> THEN conn.sock ELSE <<>>]

\* The client sends the next bytes of its script, in a segment of any size.
ClientSend ==
    /\ conn.todo # <<>>
    /\ \E n \in 1..Len(conn.todo) :
         conn' = [conn EXCEPT !.todo = Drop(conn.todo, n),
                              !.sock = conn.sock \o Take(conn.todo, n)]
    /\ UNCHANGED <<dbVars, now, aof, failed, disk, seqVars, taskVars>>

\* The client shuts down its sending side after its last byte.
ClientClose ==
    /\ conn.todo = <<>>
    /\ ~conn.eof
    /\ conn' = [conn EXCEPT !.eof = TRUE]
    /\ UNCHANGED <<dbVars, now, aof, failed, disk, seqVars, taskVars>>

\* read_frame, lines 30-36: the first byte; Ok(None) at the end of the stream.
ReadFirst ==
    /\ conn.rpc = "first"
    /\ CanRead
    /\ \E r \in {BufRead(1)} :
         conn' = IF r.got = <<>> THEN [conn EXCEPT !.rpc = "closed"]
                 ELSE [conn EXCEPT !.rbuf = r.rbuf, !.sock = r.sock, !.buf = r.got,
                                   !.at = conn.read, !.read = conn.read + 1,
                                   !.rpc = "loop"]
    /\ UNCHANGED <<dbVars, now, aof, failed, disk, seqVars, taskVars>>

\* read_frame, lines 39-41, and the pass of server.rs on the frame returned:
\* buf, with whatever follows the frame in it, is dropped.
ReturnFrame ==
    /\ conn.rpc = "loop"
    /\ \E pr \in {parse_frame(conn.buf)} :
         /\ pr.st = "Ok"
         /\ \E p \in {TryFrom(pr.frame)} :
              \E r \in {Handle(pr.frame, p)} :
                /\ ServeFrame(pr.frame, p, r, "ok", TRUE)
                /\ conn' = [conn EXCEPT !.buf = <<>>, !.rpc = "first",
                              !.out = Append(conn.out, [reply |-> r.reply,
                                                        bytes |-> encode_frame(r.reply),
                                                        at |-> conn.at])]
    /\ nreq' = nreq + 1
    /\ UNCHANGED <<now, taskVars>>

\* read_frame, lines 43-58: parse_frame returned an Err, Incomplete or
\* Invalid alike, and the loop reads a chunk; a read of 0 bytes ends
\* read_frame with Err(UnexpectedEof), which ends the loop of server.rs.
ReadMore ==
    /\ conn.rpc = "loop"
    /\ parse_frame(conn.buf).st \in {"Incomplete", "Invalid", "Overflow"}
    /\ CanRead
    /\ \E r \in {BufRead(ChunkSize)} :
         conn' = IF r.got = <<>> THEN [conn EXCEPT !.rpc = "failed"]
                 ELSE [conn EXCEPT !.rbuf = r.rbuf, !.sock = r.sock,
                                   !.buf = conn.buf \o r.got,
                                   !.read = conn.read + Len(r.got)]
    /\ UNCHANGED <<dbVars, now, aof, failed, disk, seqVars, taskVars>>

\* parse_frame panics: the connection's task dies.
ParsePanic ==
    /\ conn.rpc = "loop"
    /\ parse_frame(conn.buf).st \in {"Panic", "Overflow"}
    /\ conn' = [conn EXCEPT !.rpc = "panicked"]
    /\ UNCHANGED <<dbVars, now, aof, failed, disk, seqVars, taskVars>>

InitConn ==
    /\ InitDb
    /\ nreq = 0
    /\ open = TRUE
    /\ last = Pass(Null, FALSE, Null, "skip", FALSE)
    /\ pc = <<>> /\ loc = <<>> /\ hist = <<>> /\ permits = {}
    /\ \E script \in Scripts :
         conn = [script |-> script, todo |-> Flat(script), sock |-> <<>>, eof |-> FALSE,
                 rbuf |-> <<>>, buf |-> <<>>, read |-> 0, at |-> 0, rpc |-> "first",
                 out |-> <<>>]

NextConn ==
    \/ ClientSend
    \/ ClientClose
    \/ ReadFirst
    \/ ReturnFrame
    \/ ReadMore
    \/ ParsePanic

SpecConn == InitConn /\ [][NextConn]_vars

(***************************************************************************)
(* Properties of the byte stream of a connection (SpecConn).               *)
(***************************************************************************)
\* The offset in the stream of the k-th request of a script.
RequestStart(script, k) == Len(Flat(Take(script, k - 1)))

\* The replies of a server that handles the frames one by one, in order.
RECURSIVE Answers(_, _, _)
Answers(frames, db, fresh) ==
    IF frames = <<>> THEN <<>>
    ELSE LET p == TryFrom(Head(frames))
             r == IF p.ok THEN apply(db, p.cmd, now, fresh)
                  ELSE DR(db.inner, db.ttl, err_frame(p.err))
         IN  <<r.reply>> \o Answers(Tail(frames), [inner |-> r.inner, ttl |-> r.ttl],
                                    NextFresh(db.inner, r.inner, fresh))

ScriptFrames(script) == [k \in 1..Len(script) |-> parse_frame(script[k]).frame]

\* C8: on a connection whose client sends complete request frames, the k-th
\* reply written answers the k-th request frame: it is written for the
\* frame that starts where the k-th request starts in the stream, and it is
\* the reply that handling the requests one by one in order gives.
C8_RepliesInRequestOrder ==
    conn.script = S_Pipe =>
        \A k \in 1..Len(conn.out) :
            /\ conn.out[k].at = RequestStart(conn.script, k)
            /\ conn.out[k].reply = Answers(ScriptFrames(conn.script), Db0, 1)[k]

\* The replies written for the frame that starts where the k-th request
\* of the script starts.
RepliesTo(k) == {n \in 1..Len(conn.out) : conn.out[n].at = RequestStart(conn.script, k)}

\* C35: every complete request frame receives exactly one reply, also when
\* frames arrive in one read: when the loop of server.rs has ended on the
\* end of the stream, each request of the pipelined script has one reply.
C35_EveryFrameAnswered ==
    (conn.script = S_Pipe /\ conn.rpc \in {"closed", "failed"})
        => \A k \in 1..Len(conn.script) : Cardinality(RepliesTo(k)) = 1

\* A frame is never answered twice.
C35_AtMostOneReply ==
    conn.script = S_Pipe => \A k \in 1..Len(conn.script) : Cardinality(RepliesTo(k)) <= 1

\* A step of read_frame or of the loop of server.rs.
ServerStep == conn'.rpc # conn.rpc \/ conn'.buf # conn.buf

\* C9: when the bytes of buf form an invalid frame, the server's next step
\* writes an Error reply and goes back to reading the next request; it does
\* not read on for more bytes and does not end the connection.
C9_InvalidIsAnswered ==
    [][ (conn.rpc = "loop" /\ parse_frame(conn.buf).st = "Invalid" /\ ServerStep)
        => /\ Len(conn'.out) = Len(conn.out) + 1
           /\ conn'.out[Len(conn'.out)].reply.t = "Error"
           /\ conn'.rpc = "first" ]_vars

(***************************************************************************)
(* SpecLife: one connection served request by request on a keyspace of two *)
(* keys that earlier requests have filled.  The start is the state the     *)
(* server is in after it has served a script of requests at time 0.        *)
(***************************************************************************)
\* Requests served after the start in one behaviour of SpecLife.
MaxLife == 2

J == <<"j">>
Keys2 == {K, J}

Db2 == [inner |-> [k \in Keys2 |-> NoValue], ttl |-> [k \in Keys2 |-> NoTtl]]

\* The scripts that fill a key: nothing, a string, a set or a hash, each
\* with or without a deadline one second ahead.
Fill(key) ==
    LET plain == { <<>>,
                   <<Req(<<N_SET, key, <<"a">>>>)>>,
                   <<Req(<<N_SADD, key, <<"a">>, <<"b">>>>)>>,
                   <<Req(<<N_HSET, key, <<"f">>, <<"a">>>>)>> }
    IN  plain \cup {script \o <<Req(<<N_EXPIRE, key, <<"1">>>>)>> : script \in plain \ {<<>>}}

FillK == Fill(K)
FillJ == {script \in Fill(J) : script = <<>> \/ Head(script).a[1].s = N_SADD}

LifeRequests ==
    { Req(<<N_GET, K>>), Req(<<N_TTL, K>>), Req(<<N_SET, K, <<"v">>>>), Req(<<N_DEL, K>>),
      Req(<<N_EXPIRE, K, <<"1">>>>), Req(<<N_GETSET, K, <<"v">>>>),
      Req(<<N_SADD, K, <<"c">>>>), Req(<<N_SCARD, K>>),
      Req(<<N_MSET, K, <<"v">>, J, <<"w">>>>),
      Req(<<N_MGET, K, J>>), Req(<<N_MGET, J, K>>),
      Req(<<N_SUNION, K, J>>), Req(<<N_SINTER, K, J>>), Req(<<N_SINTER, J, K>>),
      Req(<<N_SDIFF, K, J>>), Req(<<N_SDIFF, J, K>>) }

ParsedLife == [f \in LifeRequests |-> TryFrom(f)]

InitLife ==
    /\ \E sk \in FillK, sj \in FillJ :
         \E db \in {replay(Db2, sk \o sj, 0, 1)} :
           /\ inner = db.inner
           /\ ttl = db.ttl
           /\ aof = [i \in 1..Len(sk \o sj) |-> Rec((sk \o sj)[i], FALSE)]
    /\ nextId = 1
    /\ now = 0
    /\ failed = 0
    /\ disk = Disk("always", Len(aof))
    /\ nreq = 0
    /\ open = TRUE
    /\ last = Pass(Null, FALSE, Null, "skip", FALSE)
    /\ pc = <<>> /\ loc = <<>> /\ hist = <<>> /\ permits = {} /\ conn = <<>>

\* One pass of the connection loop; the append and the write succeed.
ServeLife ==
    /\ nreq < MaxLife
    /\ \E f \in LifeRequests :
         \E r \in {Handle(f, ParsedLife[f])} : ServeFrame(f, ParsedLife[f], r, "ok", TRUE)
    /\ nreq' = nreq + 1
    /\ UNCHANGED <<now, taskVars, conn>>

NextLife == ServeLife \/ Tick \/ Sweep

SpecLife == InitLife /\ [][NextLife]_vars

(***************************************************************************)
(* Properties of SpecLife.                                                 *)
(***************************************************************************)
\* The command of the request that the step serves.
ServedCmd == TryFrom(last'.frame).cmd

\* The keys a command names.
KeysOf(cmd) ==
    CASE cmd.op = "MSet" -> {cmd.vals[i][1] : i \in 1..Len(cmd.vals)}
      [] cmd.op \in {"MGet", "SUnion", "SInter", "SDiff"} -> Range(cmd.vals)
      [] cmd.op = "Ping" -> {}
      [] OTHER -> {cmd.key}

\* The commands that store a value under a key they name.
StoresValue(op) ==
    op \in {"Set", "MSet", "GetSet", "Append", "Incr", "IncrBy", "LPush", "RPush", "HSet",
            "SAdd", "ZAdd"}

\* The key is gone for a client: the map has no value for it, or its
\* deadline has passed.
Gone(m, t, key, now_) == m[key].t = "None" \/ is_expired(t, key, now_)
\* C11, one request at a time: in a state where the deadline of k has passed,
\* GET k is answered Null and TTL k is answered -2, and k stays gone after
\* every request that stores no value under k.
C11_GoneStaysGone ==
    [][ (Served /\ is_expired(ttl, K, now))
        => /\ (ServedCmd.op = "Get" /\ ServedCmd.key = K => last'.reply = Null)
           /\ (ServedCmd.op = "Ttl" /\ ServedCmd.key = K => last'.reply = Integer(-2))
           /\ (~(StoresValue(ServedCmd.op) /\ K \in KeysOf(ServedCmd))
                 => Gone(inner', ttl', K, now')) ]_vars

\* C12: a multi-key read treats a key whose deadline has passed as a key
\* that is gone: MGET, SUNION, SINTER and SDIFF answer what they answer once
\* the expired keys of the keyspace have been purged.
C12_MultiKeyLazyExpiry ==
    [][ (Served /\ ServedCmd.op \in {"MGet", "SUnion", "SInter", "SDiff"})
        => last'.reply = apply(cleanup(Now, now), ServedCmd, now, nextId).reply ]_vars

\* The same for SUNION alone.
C12_UnionLazyExpiry ==
    [][ (Served /\ ServedCmd.op = "SUnion")
        => last'.reply = apply(cleanup(Now, now), ServedCmd, now, nextId).reply ]_vars

\* A SUNION has been served over a key whose deadline had passed.
C12_UnionWitness ==
    /\ nreq > 0
    /\ last.frame = Req(<<N_SUNION, K, J>>)
    /\ is_expired(ttl, J, now)
    /\ inner[J].t = "Set"

\* C18: when SET k v was answered OK and the next request of the connection
\* is GET k, at whatever later time, the GET is answered v.
C18_GetAfterSet ==
    [][ (/\ Served
         /\ nreq > 0
         /\ last.frame = Req(<<N_SET, K, <<"v">>>>)
         /\ last.reply = OK
         /\ last'.frame = Req(<<N_GET, K>>))
        => last'.reply = Bulk(<<"v">>) ]_vars

\* C19, one request at a time: DEL k leaves no entry for k in either map and
\* answers 1 exactly when k held a value whose deadline had not passed; and a
\* request other than EXPIRE gives no deadline to a key that has none.
C19_DelSequential ==
    [][ Served =>
          /\ (ServedCmd.op = "Del" /\ ServedCmd.key = K
                => /\ inner'[K] = NoValue
                   /\ ttl'[K] = NoTtl
                   /\ last'.reply = Integer(IF Gone(inner, ttl, K, now) THEN 0 ELSE 1))
          /\ (ServedCmd.op # "Expire" /\ ttl[K] = NoTtl => ttl'[K] = NoTtl) ]_vars

\* C20: a request served on a key that holds a value (its deadline not
\* passed) and that leaves a value under the key leaves a value of the same
\* variant.
C20_VariantNeverChanges ==
    [][ (Served /\ ~Gone(inner, ttl, K, now) /\ inner'[K].t # "None")
        => inner'[K].t = inner[K].t ]_vars
(***************************************************************************)
(* SpecRace: tasks over a keyspace that already holds keys.  DEL and TTL   *)
(* are tasks' commands here as well:                                       *)
(*   pc[c]   also "ttl_read", between the two locks of Db::ttl             *)
(***************************************************************************)
\* del after its check_and_purge: the value map's write lock is taken, the
\* key removed, the TTL map's write lock taken while the first is still held,
\* the entry removed.  No other task changes the value map in between, and a
\* change of the TTL entry in between is removed like one made before.
DelStep(c) ==
    /\ pc[c] = "locked"
    /\ loc[c].cmd.op = "Del"
    /\ \E r \in {del_locked(inner, loc[c].cmd.key)} :
         /\ inner' = r.inner
         /\ ttl' = [ttl EXCEPT ![loc[c].cmd.key] = NoTtl]
         /\ loc' = [loc EXCEPT ![c].reply = r.reply]
         /\ Finish(c, r.reply)
    /\ UNCHANGED <<nextId, now, aof, failed, disk, seqVars, permits, conn>>

\* ttl, first half: contains_key under the value map's read lock, which is
\* dropped before the TTL map is locked.
TtlCheck(c) ==
    /\ pc[c] = "locked"
    /\ loc[c].cmd.op = "Ttl"
    /\ IF inner[loc[c].cmd.key].t = "None"
       THEN /\ loc' = [loc EXCEPT ![c].reply = Integer(-2)]
            /\ Finish(c, Integer(-2))
       ELSE /\ pc' = [pc EXCEPT ![c] = "ttl_read"]
            /\ UNCHANGED <<loc, hist>>
    /\ UNCHANGED <<dbVars, now, aof, failed, disk, seqVars, permits, conn>>

\* What ttl answers from the TTL map alone.
ttl_read(t, key, now_) ==
    IF t[key] = NoTtl THEN Integer(-1)
    ELSE IF now_ >= t[key] THEN Integer(-2)
    ELSE Integer(t[key] - now_)

\* ttl, second half: the entry under the TTL map's read lock.
TtlRead(c) ==
    /\ pc[c] = "ttl_read"
    /\ loc' = [loc EXCEPT ![c].reply = ttl_read(ttl, loc[c].cmd.key, now)]
    /\ Finish(c, ttl_read(ttl, loc[c].cmd.key, now))
    /\ UNCHANGED <<dbVars, now, aof, failed, disk, seqVars, permits, conn>>

F_TTL == Req(<<N_TTL, K>>)
F_DEL == Req(<<N_DEL, K>>)
F_EXPIRE1 == Req(<<N_EXPIRE, K, <<"1">>>>)
F_MSET1 == Req(<<N_MSET, K, <<"1">>, J, <<"1">>>>)
F_MSET2 == Req(<<N_MSET, K, <<"2">>, J, <<"2">>>>)
F_MGET == Req(<<N_MGET, K, J>>)

\* A workload: the journal replayed at time 0, the time at which the clients
\* connect, and each client's requests.
Work(script, start, queues) == [script |-> script, start |-> start, queues |-> queues]

\* k holds a string whose deadline has passed when the clients connect; one
\* client asks for its TTL, another reads it.
TtlWork ==
    Work(<<Req(<<N_SET, K, <<"a">>>>), F_EXPIRE1>>, 1,
         [c \in Clients |-> CASE c = 1 -> <<F_TTL>> [] c = 2 -> <<F_GET>> [] OTHER -> <<>>])

\* Two clients MSET k and j while a third reads both with MGET.
MsetWork ==
    Work(<<>>, 0,
         [c \in Clients |-> CASE c = 1 -> <<F_MSET1>> [] c = 2 -> <<F_MSET2>>
                              [] c = 3 -> <<F_MGET>> [] OTHER -> <<>>])

\* k holds a string without a deadline; one client deletes it, creates it
\* again and asks for its TTL, another gives it a deadline.
DelWork ==
    Work(<<Req(<<N_SET, K, <<"a">>>>)>>, 0,
         [c \in Clients |-> CASE c = 1 -> <<F_DEL, F_SET1, F_TTL>> [] c = 2 -> <<F_EXPIRE1>>
                              [] OTHER -> <<>>])

RaceWorkloads == {TtlWork, MsetWork, DelWork}

InitRace ==
    /\ \E w \in RaceWorkloads :
         \E db \in {replay(Db2, w.script, 0, 1)} :
           /\ inner = db.inner
           /\ ttl = db.ttl
           /\ aof = [i \in 1..Len(w.script) |-> Rec(w.script[i], FALSE)]
           /\ now = w.start
           /\ loc = [c \in Clients |-> Local(w.queues[c])]
    /\ nextId = 1
    /\ failed = 0
    /\ disk = Disk("always", Len(aof))
    /\ nreq = 0
    /\ open = TRUE
    /\ last = Pass(Null, FALSE, Null, "skip", FALSE)
    /\ pc = [c \in Clients |-> "read"]
    /\ hist = Hist0
    /\ permits = {}
    /\ conn = <<>>

NextRace ==
    \/ \E c \in Clients :
         \/ Dispatch(c)
         \/ CheckExpired(c)
         \/ Purge(c)
         \/ LockedStep(c)
         \/ DelStep(c)
         \/ TtlCheck(c)
         \/ TtlRead(c)
         \/ ExpireCheck(c)
         \/ ExpireSet(c)
         \/ AppendStep(c)
         \/ WriteReply(c)
    \/ Tick
    \/ Sweep

SpecRace == InitRace /\ [][NextRace]_vars

\* The behaviour runs the workload w.
Runs(w) == \A c \in Clients : loc[c].queue = w.queues[c]

\* C11: a TTL k issued after k's deadline has passed, with no write to k,
\* is answered -2 and a GET k is answered Null, whatever purge runs meanwhile.
C11_ExpiredStaysExpired ==
    Runs(TtlWork) =>
        /\ \A i \in 1..Len(hist.replies[1]) : hist.replies[1][i] = Integer(-2)
        /\ \A i \in 1..Len(hist.replies[2]) : hist.replies[2][i] = Null
\* The values that an MGET over k and j may report: both absent, or both
\* written by the same MSET.
MsetSnapshots ==
    { Array(<<Null, Null>>), Array(<<Bulk(<<"1">>), Bulk(<<"1">>)>>),
      Array(<<Bulk(<<"2">>), Bulk(<<"2">>)>>) }

\* C13: while clients MSET k and j concurrently, an MGET k j reports the
\* values of no MSET or both values of one MSET, and at every moment the two
\* keys hold the values of the same MSET.
C13_MsetAtomic ==
    Runs(MsetWork) =>
        /\ \A i \in 1..Len(hist.replies[3]) : hist.replies[3][i] \in MsetSnapshots
        /\ inner[K] = inner[J]

\* The MGET has been answered with the values of one MSET while the other
\* MSET is between its dispatch and its reply.
C13_Witness ==
    /\ Runs(MsetWork)
    /\ hist.replies[3] = <<Array(<<Bulk(<<"1">>), Bulk(<<"1">>)>>)>>
    /\ pc[2] = "locked"
    /\ inner[K] = StringV(<<"1">>)

\* C19: once DEL k has returned, and the EXPIRE k of the other client has
\* returned too so that no command is in flight, neither map holds an entry
\* for k.
C19_DelLeavesNothing ==
    (/\ Runs(DelWork)
     /\ Len(hist.replies[1]) = 1
     /\ pc[1] = "read" /\ loc[1].i = 1
     /\ Len(hist.replies[2]) = 1
     /\ pc[2] = "read")
    => inner[K] = NoValue /\ ttl[K] = NoTtl
(***************************************************************************)
(* SpecBlock: BRPOP k 1 on a key that nobody pushes to.  When the clients  *)
(* connect the key was never created, or was deleted, or has a deadline    *)
(* that has passed and has not been purged yet.                            *)
(***************************************************************************)
\* The time at which the clients connect.
BlockStart == 1

F_RPUSHJ == Req(<<N_RPUSH, J, <<"a">>>>)

BlockScripts ==
    { <<>>,
      <<F_LPUSH, F_DEL>>,
      <<F_LPUSH, F_EXPIRE1>> }

\* Client 1 blocks on k; client 2 pushes to another key and client 3 reads k.
BlockWork(script) ==
    Work(script, BlockStart,
         [c \in Clients |-> CASE c = 1 -> <<F_BRPOP>> [] c = 2 -> <<F_RPUSHJ>>
                              [] c = 3 -> <<F_GET>> [] OTHER -> <<>>])

InitBlock ==
    /\ \E script \in BlockScripts :
         \E w \in {BlockWork(script)} :
           \E db \in {replay(Db2, w.script, 0, 1)} :
             /\ inner = db.inner
             /\ ttl = db.ttl
             /\ aof = [i \in 1..Len(w.script) |-> Rec(w.script[i], FALSE)]
             /\ now = w.start
             /\ loc = [c \in Clients |-> Local(w.queues[c])]
             /\ nextId = IF script = <<>> THEN 1 ELSE 2
    /\ failed = 0
    /\ disk = Disk("always", Len(aof))
    /\ nreq = 0
    /\ open = TRUE
    /\ last = Pass(Null, FALSE, Null, "skip", FALSE)
    /\ pc = [c \in Clients |-> "read"]
    /\ hist = Hist0
    /\ permits = {}
    /\ conn = <<>>

NextBlock ==
    \/ \E c \in Clients :
         \/ Dispatch(c)
         \/ CheckExpired(c)
         \/ Purge(c)
         \/ LockedStep(c)
         \/ AppendStep(c)
         \/ WriteReply(c)
         \/ BrpopPass(c)
         \/ BrpopPoll(c)
         \/ BrpopSleepEnd(c)
    \/ Tick

SpecBlock == InitBlock /\ [][NextBlock]_vars

\* The journal the keyspace was loaded from gave k a deadline.
LoadedWithDeadline == Len(aof) >= 2 /\ aof[2].f = F_EXPIRE1

\* C14: the BRPOP k 1 is answered Null, and not before one second has passed
\* since the clients connected (its call is no earlier than that).
C14_NullAtDeadline ==
    hist.replies[1] # <<>> =>
        /\ hist.replies[1] = <<Null>>
        /\ now >= BlockStart + loc[1].cmd.num

\* The same for the keys that hold no entry in either map when the clients
\* connect.
C14_AbsentWaits ==
    (hist.replies[1] # <<>> /\ ~LoadedWithDeadline) =>
        /\ hist.replies[1] = <<Null>>
        /\ now >= loc[1].deadline
        /\ loc[1].deadline >= BlockStart + loc[1].cmd.num

\* The BRPOP on a key without entries has been answered.
C14_AbsentWitness == hist.replies[1] # <<>> /\ ~LoadedWithDeadline
(***************************************************************************)
(* SpecReplay: start-up on a journal file given as bytes.  In this         *)
(* specification                                                           *)
(*   aof       is the file's bytes                                         *)
(*   pc.main   is "boot" before main has read the file, "serving" once     *)
(*             server::run is reached, "aborted" when main returned Err,   *)
(*             "panicked" when the parser panicked                         *)
(*   hist      is the frames parse_frames_from_bytes returned              *)
(***************************************************************************)
\* What the loop of aof.rs 115-131 makes of the bytes: "Ok" with the frames
\* parsed before the end of the file or before the first incomplete frame,
\* "Err" at the first invalid frame.
AofParsed(st, frames) == [st |-> st, frames |-> frames]

RECURSIVE parse_aof_bytes(_, _)
parse_aof_bytes(bytes, frames) ==
    IF bytes = <<>> THEN {AofParsed("Ok", frames)}
    ELSE LET r == parse_frame(bytes)
         IN  CASE r.st = "Ok" -> parse_aof_bytes(Drop(bytes, r.used), Append(frames, r.frame))
               [] r.st = "Incomplete" -> {AofParsed("Ok", frames)}
               [] r.st = "Invalid" -> {AofParsed("Err", <<>>)}
               [] r.st = "Panic" -> {AofParsed("Panic", <<>>)}
               [] OTHER -> {AofParsed("Panic", <<>>), AofParsed("Err", <<>>),
                            AofParsed("Ok", frames)}

X == <<"x">>
KeysR == {K, X}
DbR == [inner |-> [k \in KeysR |-> NoValue], ttl |-> [k \in KeysR |-> NoTtl]]

\* The journal of SET k 5, INCR k.
JournalFrames == <<Req(<<N_SET, K, <<"5">>>>), Req(<<N_INCR, K>>)>>
JournalBytes == encode_all(JournalFrames)

\* The files: the journal cut after any number of bytes, and the whole
\* journal with one byte overwritten.
Files ==
    {Take(JournalBytes, n) : n \in 0..Len(JournalBytes)}
        \cup {[JournalBytes EXCEPT ![i] = "x"] : i \in 1..Len(JournalBytes)}

InitReplay ==
    /\ aof \in Files
    /\ inner = DbR.inner
    /\ ttl = DbR.ttl
    /\ nextId = 1
    /\ now = 0
    /\ failed = 0
    /\ disk = Disk("always", Len(aof))
    /\ nreq = 0
    /\ open = TRUE
    /\ last = Pass(Null, FALSE, Null, "skip", FALSE)
    /\ pc = [main |-> "boot"]
    /\ hist = <<>>
    /\ loc = <<>> /\ permits = {} /\ conn = <<>>

\* A start-up that journals the frames it replays.
Startup_appending ==
    /\ pc.main = "boot"
    /\ \E r \in parse_aof_bytes(aof, <<>>) :
         IF r.st = "Ok"
         THEN \E db \in {replay(DbR, r.frames, now, 1)} :
                /\ inner' = db.inner
                /\ ttl' = db.ttl
                /\ hist' = r.frames
                /\ aof' = aof \o encode_all(r.frames)
                /\ pc' = [main |-> "serving"]
         ELSE /\ pc' = [main |-> IF r.st = "Err" THEN "aborted" ELSE "panicked"]
              /\ UNCHANGED <<inner, ttl, hist, aof>>
    /\ UNCHANGED <<nextId, now, failed, disk, seqVars, loc, permits, conn>>

\* main.rs 75-89: read the file, parse it, apply the frames that are
\* commands, go on to server::run; or return the parse error.
Startup ==
    /\ pc.main = "boot"
    /\ \E r \in parse_aof_bytes(aof, <<>>) :
         IF r.st = "Ok"
         THEN \E db \in {replay(DbR, r.frames, now, 1)} :
                /\ inner' = db.inner
                /\ ttl' = db.ttl
                /\ hist' = r.frames
                /\ pc' = [main |-> "serving"]
         ELSE /\ pc' = [main |-> IF r.st = "Err" THEN "aborted" ELSE "panicked"]
              /\ UNCHANGED <<inner, ttl, hist>>
    /\ UNCHANGED <<nextId, now, aof, failed, disk, seqVars, loc, permits, conn>>

\* The server answers a GET k.
ServeReplay ==
    /\ pc.main = "serving"
    /\ nreq < 1
    /\ \E f \in {F_GET} :
         \E r \in {Handle(f, TryFrom(f))} : ServeFrame(f, TryFrom(f), r, "ok", TRUE)
    /\ nreq' = nreq + 1
    /\ UNCHANGED <<now, taskVars, conn>>

NextReplay == Startup \/ ServeReplay

SpecReplay == InitReplay /\ [][NextReplay]_vars

\* C15: the server serves only when the frames it applied are the whole
\* file: a file that ends in an incomplete frame or holds an unparsable
\* frame never gets it to serve.
C15_ServesWholeFileOnly ==
    pc.main = "serving" => encode_all(hist) = aof

\* The server serves only when what follows the frames it applied is
\* nothing or the beginning of a frame.
C15_OnlyTailDropped ==
    pc.main = "serving" =>
        LET rest == Drop(aof, Len(encode_all(hist)))
        IN  /\ Take(aof, Len(encode_all(hist))) = encode_all(hist)
            /\ rest = <<>> \/ parse_frame(rest).st = "Incomplete"

\* The start-up has aborted on a file.
C15_AbortWitness == pc.main = "aborted"
(***************************************************************************)
(* More properties of Spec.                                                *)
(***************************************************************************)
\* C16: when the append of a served request fails, the keyspace is what the
\* command made it, the reply is the command's reply (not an error), and the
\* loop goes on unless the reply could not be written.
C16_AppendFailureIsSurvived ==
    [][ (Served /\ last'.append \in {"none", "torn", "full"})
        => \E r \in {Handle(last'.frame, Parsed[last'.frame])} :
             /\ inner' = r.inner
             /\ ttl' = r.ttl
             /\ last'.reply = r.reply
             /\ last'.reply.t # "Error"
             /\ open' = last'.wrote ]_vars

\* A request has been served after a request whose append failed.
C16_Witness ==
    /\ failed = 1
    /\ nreq = 2
    /\ last.parsed
    /\ last.append \in {"skip", "ok"}
    /\ open
(***************************************************************************)
(* SpecAof: one connection, the three fsync policies, a crash of the       *)
(* machine and the restart.  In this specification                         *)
(*   hist   is the request frames whose append returned Ok and whose       *)
(*          reply was written                                              *)
(*   open   is false once the machine has crashed                          *)
(***************************************************************************)
MaxAofReq == 3

AofRequests == {F_SET1, F_SET2, F_INCR, F_GET}
ParsedAof == [f \in AofRequests |-> TryFrom(f)]

InitAof ==
    /\ inner = Db0.inner
    /\ ttl = Db0.ttl
    /\ nextId = 1
    /\ now = 0
    /\ aof = <<>>
    /\ failed = 0
    /\ disk \in {Disk(policy, 0) : policy \in Policies}
    /\ nreq = 0
    /\ open = TRUE
    /\ last = Pass(Null, FALSE, Null, "skip", FALSE)
    /\ hist = <<>>
    /\ pc = <<>> /\ loc = <<>> /\ permits = {} /\ conn = <<>>

\* One pass of the connection loop; the reply is written.
ServeAof ==
    /\ open
    /\ nreq < MaxAofReq
    /\ \E f \in AofRequests :
         \E r \in {Handle(f, ParsedAof[f])} :
           \E out \in AppendOutcomes :
             /\ ServeFrame(f, ParsedAof[f], r, out, TRUE)
             /\ hist' = IF last'.append = "ok" THEN Append(hist, f) ELSE hist
    /\ nreq' = nreq + 1
    /\ UNCHANGED <<now, pc, loc, permits, conn>>

\* aof.rs 61-70, 102-108: the task of the EverySec policy: flush_and_sync.
FlushEverySec ==
    /\ open
    /\ disk.policy = "everysec"
    /\ disk.synced < Len(aof)
    /\ disk' = [disk EXCEPT !.synced = Len(aof)]
    /\ UNCHANGED <<dbVars, now, aof, failed, seqVars, taskVars, conn>>

\* What a crash of the machine leaves of the file: the synced prefix, and of
\* what follows it any prefix, the last record of it possibly incomplete.
AfterCrash(log, synced) ==
    {Take(log, n) : n \in synced..Len(log)}
        \cup {Append(Take(log, n - 1), Rec(log[n].f, TRUE)) : n \in (synced + 1)..Len(log)}

\* The machine crashes and the server is started again (main.rs 72-89).
Crash ==
    /\ open
    /\ \E file \in AfterCrash(aof, disk.synced) :
         \E db \in {replay(Db0, parse_frames_from_bytes(file), now, 1)} :
           /\ aof' = file
           /\ disk' = [disk EXCEPT !.synced = Len(file)]
           /\ inner' = db.inner
           /\ ttl' = db.ttl
    /\ nextId' = 1
    /\ open' = FALSE
    /\ UNCHANGED <<now, failed, nreq, last, taskVars, conn>>

NextAof == ServeAof \/ FlushEverySec \/ Crash

SpecAof == InitAof /\ [][NextAof]_vars

\* a is a subsequence of b.
RECURSIVE IsSubSeq(_, _)
IsSubSeq(a, b) ==
    IF a = <<>> THEN TRUE
    ELSE IF b = <<>> THEN FALSE
    ELSE IF Head(a) = Head(b) THEN IsSubSeq(Tail(a), Tail(b))
    ELSE IsSubSeq(a, Tail(b))

\* The complete records of the part of the file that is on the disk.
Durable == SelectSeq(Take(aof, disk.synced), LAMBDA rec : ~rec.torn)

C17_AnyPolicyDurable ==
    IsSubSeq([i \in 1..Len(hist) |-> Rec(hist[i], FALSE)], Durable)
(***************************************************************************)
(* More properties of SpecLife and SpecRace.                               *)
(***************************************************************************)
\* The set under key as mathematics has it: empty for a key that holds
\* nothing.
S(key) == IF inner[key].t = "Set" THEN inner[key].m ELSE {}

\* What the set algebra gives for the command cmd.
SetAlgebra(cmd) ==
    LET keys == cmd.vals
    IN  CASE cmd.op = "SUnion" -> UNION {S(keys[i]) : i \in 1..Len(keys)}
          [] cmd.op = "SInter" -> {x \in S(keys[1]) : \A i \in 1..Len(keys) : x \in S(keys[i])}
          [] OTHER -> S(keys[1]) \ UNION {S(keys[i]) : i \in 2..Len(keys)}

\* Every key of the command holds a set or nothing, and no deadline of
\* theirs has passed.
PlainSets(cmd) ==
    \A key \in KeysOf(cmd) :
        inner[key].t \in {"None", "Set"} /\ ~is_expired(ttl, key, now)

\* The members of an Array reply.
ReplyMembers(reply) == {reply.a[i].s : i \in 1..Len(reply.a)}

\* C22: SUNION, SINTER and SDIFF over keys that hold sets or do not exist
\* answer the union, the intersection and the difference of the sets, a
\* key that does not exist counting as the empty set.
C22_SetAlgebra ==
    [][ (Served /\ ServedCmd.op \in {"SUnion", "SInter", "SDiff"} /\ PlainSets(ServedCmd))
        => /\ last'.reply.t = "Array"
           /\ Len(last'.reply.a) = Cardinality(SetAlgebra(ServedCmd))
           /\ ReplyMembers(last'.reply) = SetAlgebra(ServedCmd) ]_vars

\* The same for SUNION and SDIFF only.
C22_UnionAndDiff ==
    [][ (Served /\ ServedCmd.op \in {"SUnion", "SDiff"} /\ PlainSets(ServedCmd))
        => /\ last'.reply.t = "Array"
           /\ Len(last'.reply.a) = Cardinality(SetAlgebra(ServedCmd))
           /\ ReplyMembers(last'.reply) = SetAlgebra(ServedCmd) ]_vars

\* C30: EXPIRE on a key whose deadline has passed and that has not been
\* purged answers 0 and leaves the key gone.
C30_ExpireOnExpired ==
    [][ (Served /\ ServedCmd.op = "Expire" /\ ServedCmd.key = K
           /\ inner[K].t # "None" /\ is_expired(ttl, K, now))
        => /\ last'.reply = Integer(0)
           /\ Gone(inner', ttl', K, now') ]_vars

\* C29: a step that gives k a deadline or moves it is taken in a state
\* where k is in the value map.
C29_DeadlineNeedsKey ==
    [][ (ttl'[K] # ttl[K] /\ ttl'[K] # NoTtl) => inner[K].t # "None" ]_vars

(***************************************************************************)
(* Expiration against concurrent writers (SpecExpiry): the tasks of        *)
(* SpecRace over a key whose deadline passes, with the sweeper of          *)
(* expiration.rs run in its two lock sections.  The sweeper is the task    *)
(* Sweeper: pc[Sweeper] is "tick" or "remove", loc[Sweeper].expired the    *)
(* keys it collected.                                                      *)
(***************************************************************************)
Sweeper == 0

\* expiration.rs 18-32: the keys whose deadline has passed, read under the
\* TTL map's read lock; nothing more is done when there is none.
SweepCollect ==
    /\ pc[Sweeper] = "tick"
    /\ expired_keys(ttl, now) # {}
    /\ loc' = [loc EXCEPT ![Sweeper].expired = expired_keys(ttl, now)]
    /\ pc' = [pc EXCEPT ![Sweeper] = "remove"]
    /\ UNCHANGED <<dbVars, now, aof, failed, disk, seqVars, hist, permits, conn>>

\* The keys of the set gone from both maps.
remove_collected(db, gone) ==
    [inner |-> [k \in DOMAIN db.inner |-> IF k \in gone THEN NoValue ELSE db.inner[k]],
     ttl |-> [k \in DOMAIN db.ttl |-> IF k \in gone THEN NoTtl ELSE db.ttl[k]]]

\* expiration.rs 34-40: the collected keys are removed from both maps under
\* both write locks.
SweepRemove ==
    /\ pc[Sweeper] = "remove"
    /\ \E db \in {remove_collected(Now, loc[Sweeper].expired)} :
         inner' = db.inner /\ ttl' = db.ttl
    /\ loc' = [loc EXCEPT ![Sweeper].expired = {}]
    /\ pc' = [pc EXCEPT ![Sweeper] = "tick"]
    /\ UNCHANGED <<nextId, now, aof, failed, disk, seqVars, hist, permits, conn>>

\* k holds a string with a deadline of one second; one client reads it,
\* another moves its deadline, a third overwrites it.
ExpiryWork ==
    Work(<<Req(<<N_SET, K, <<"a">>>>), F_EXPIRE1>>, 0,
         [c \in Clients |-> CASE c = 1 -> <<F_GET>> [] c = 2 -> <<F_EXPIRE1>>
                              [] c = 3 -> <<F_SET2>> [] OTHER -> <<>>])

InitExpiry ==
    /\ \E w \in {ExpiryWork} :
         \E db \in {replay(Db2, w.script, 0, 1)} :
           /\ inner = db.inner
           /\ ttl = db.ttl
           /\ aof = [i \in 1..Len(w.script) |-> Rec(w.script[i], FALSE)]
           /\ now = w.start
           /\ loc = [c \in Clients \cup {Sweeper} |->
                       IF c = Sweeper THEN [expired |-> {}] ELSE Local(w.queues[c])]
    /\ nextId = 1
    /\ failed = 0
    /\ disk = Disk("always", Len(aof))
    /\ nreq = 0
    /\ open = TRUE
    /\ last = Pass(Null, FALSE, Null, "skip", FALSE)
    /\ pc = [c \in Clients \cup {Sweeper} |-> IF c = Sweeper THEN "tick" ELSE "read"]
    /\ hist = Hist0
    /\ permits = {}
    /\ conn = <<>>

NextExpiry ==
    \/ \E c \in Clients :
         \/ Dispatch(c)
         \/ CheckExpired(c)
         \/ Purge(c)
         \/ LockedStep(c)
         \/ ExpireCheck(c)
         \/ ExpireSet(c)
         \/ AppendStep(c)
         \/ WriteReply(c)
    \/ Tick
    \/ SweepCollect
    \/ SweepRemove

SpecExpiry == InitExpiry /\ [][NextExpiry]_vars

\* A step of expiration that takes k out of the value map: the second half
\* of a lazy purge, or the sweeper's removal.
ExpiryRemoves(key) ==
    /\ inner[key].t # "None"
    /\ inner'[key].t = "None"
    /\ \/ \E c \in Clients : pc[c] = "purge" /\ pc'[c] # "purge" /\ loc[c].cmd.key = key
       \/ pc[Sweeper] = "remove" /\ pc'[Sweeper] = "tick"

\* C28: expiration removes k from the value map only in a state where k
\* has a TTL entry whose deadline has passed.
C28_RemovedOnlyWhenExpired ==
    [][ ExpiryRemoves(K) => is_expired(ttl, K, now) ]_vars

\* The same for the lazy purge alone.
C28_PurgeOnlyWhenExpired ==
    [][ (ExpiryRemoves(K) /\ pc[Sweeper] = pc'[Sweeper]) => is_expired(ttl, K, now) ]_vars

\* The same for the sweeper alone.
C28_SweepOnlyWhenExpired ==
    [][ (ExpiryRemoves(K) /\ pc[Sweeper] # pc'[Sweeper]) => is_expired(ttl, K, now) ]_vars

(***************************************************************************)
(* The two RwLocks of Db, acquisition by acquisition (SpecLocks).  A lock  *)
(* is held between two steps exactly by the tasks whose pc says so:        *)
(*   "purge_inner"  purge_expired holds ttl.write and asks for inner.write *)
(*   "del_ttl"      del holds inner.write and asks for ttl.write           *)
(*   "su_scan"      sunion holds inner.read and asks for ttl.read, key by  *)
(*                  key (loc[c].scan keys done, loc[c].acc the members)    *)
(*   "sweep_ttl"    cleanup holds inner.write and asks for ttl.write       *)
(* Every other acquisition is released within the step that makes it.  An  *)
(* acquisition is a step only in a state where the lock can be granted.    *)
(***************************************************************************)
Tasks == Clients \cup {Sweeper}

HoldsTtlWrite(t) == pc[t] = "purge_inner"
HoldsInnerWrite(t) == pc[t] \in {"del_ttl", "sweep_ttl"}
HoldsInnerRead(t) == pc[t] = "su_scan"

\* tokio::sync::RwLock: write() is granted when nobody holds the lock,
\* read() when no writer holds it.
ttl_write_free == \A t \in Tasks : ~HoldsTtlWrite(t)
ttl_read_free == \A t \in Tasks : ~HoldsTtlWrite(t)
inner_write_free == \A t \in Tasks : ~HoldsInnerWrite(t) /\ ~HoldsInnerRead(t)
inner_read_free == \A t \in Tasks : ~HoldsInnerWrite(t)

\* The commands whose method takes the value map's read lock.
ReadsInner(op) == op \in {"Get", "StrLen", "LLen", "HGet", "SCard", "ZCount", "MGet"}

\* is_expired under ttl.read
LockCheckExpired(c) == ttl_read_free /\ CheckExpired(c)

\* purge_expired, line 56: ttl.write
PurgeTtlLock(c) ==
    /\ pc[c] = "purge"
    /\ ttl_write_free
    /\ pc' = [pc EXCEPT ![c] = "purge_inner"]
    /\ UNCHANGED <<dbVars, now, aof, failed, disk, seqVars, loc, hist, permits, conn>>

\* purge_expired, lines 57-61: inner.write, the two removals, and the return
\* of check_and_purge into the command.
PurgeInnerLock(c) ==
    /\ pc[c] = "purge_inner"
    /\ inner_write_free
    /\ \E db \in {purge_expired(Now, loc[c].cmd.key)} :
         inner' = db.inner /\ ttl' = db.ttl
    /\ IF ReturnsWhenPurged(loc[c].cmd.op)
       THEN /\ loc' = [loc EXCEPT ![c].reply = PurgedReply(loc[c].cmd.op)]
            /\ Finish(c, PurgedReply(loc[c].cmd.op))
       ELSE /\ pc' = [pc EXCEPT ![c] = "locked"]
            /\ UNCHANGED <<loc, hist>>
    /\ UNCHANGED <<nextId, now, aof, failed, disk, seqVars, permits, conn>>

\* The locked section of a command that has one section.
LockLockedStep(c) ==
    /\ loc[c].cmd.op # "SUnion"
    /\ IF ReadsInner(loc[c].cmd.op) THEN inner_read_free ELSE inner_write_free
    /\ LockedStep(c)

\* del, lines 164-165: inner.write and the removal from the value map.
DelInnerLock(c) ==
    /\ pc[c] = "locked"
    /\ loc[c].cmd.op = "Del"
    /\ inner_write_free
    /\ \E r \in {del_locked(inner, loc[c].cmd.key)} :
         /\ inner' = r.inner
         /\ loc' = [loc EXCEPT ![c].reply = r.reply]
    /\ pc' = [pc EXCEPT ![c] = "del_ttl"]
    /\ UNCHANGED <<ttl, nextId, now, aof, failed, disk, seqVars, hist, permits, conn>>

\* del, lines 167-170: ttl.write, the removal of the entry, the return.
DelTtlLock(c) ==
    /\ pc[c] = "del_ttl"
    /\ ttl_write_free
    /\ ttl' = [ttl EXCEPT ![loc[c].cmd.key] = NoTtl]
    /\ Finish(c, loc[c].reply)
    /\ UNCHANGED <<inner, nextId, now, aof, failed, disk, seqVars, loc, permits, conn>>

\* sunion, line 1124: inner.read
SunionLock(c) ==
    /\ pc[c] = "locked"
    /\ loc[c].cmd.op = "SUnion"
    /\ inner_read_free
    /\ loc' = [loc EXCEPT ![c].scan = 0, ![c].acc = {}]
    /\ pc' = [pc EXCEPT ![c] = "su_scan"]
    /\ UNCHANGED <<dbVars, now, aof, failed, disk, seqVars, hist, permits, conn>>

\* sunion, lines 1128-1138: the next key; is_expired takes ttl.read.
SunionScan(c) ==
    /\ pc[c] = "su_scan"
    /\ loc[c].scan < Len(loc[c].cmd.vals)
    /\ ttl_read_free
    /\ \E key \in {loc[c].cmd.vals[loc[c].scan + 1]} :
         loc' = [loc EXCEPT ![c].scan = @ + 1,
                            ![c].acc = IF ~is_expired(ttl, key, now) /\ HoldsSet(Now, key)
                                       THEN @ \cup inner[key].m ELSE @]
    /\ UNCHANGED <<dbVars, now, aof, failed, disk, seqVars, pc, hist, permits, conn>>

\* sunion, lines 1140-1141: the reply; the read lock is released.
SunionReturn(c) ==
    /\ pc[c] = "su_scan"
    /\ loc[c].scan = Len(loc[c].cmd.vals)
    /\ loc' = [loc EXCEPT ![c].reply = Members(loc[c].acc)]
    /\ Finish(c, Members(loc[c].acc))
    /\ UNCHANGED <<dbVars, now, aof, failed, disk, seqVars, permits, conn>>

\* cleanup, lines 20-32, under ttl.read
LockSweepCollect == ttl_read_free /\ SweepCollect

\* cleanup, line 34: inner.write
SweepInnerLock ==
    /\ pc[Sweeper] = "remove"
    /\ inner_write_free
    /\ pc' = [pc EXCEPT ![Sweeper] = "sweep_ttl"]
    /\ UNCHANGED <<dbVars, now, aof, failed, disk, seqVars, loc, hist, permits, conn>>

\* cleanup, lines 35-40: ttl.write and the removals.
SweepTtlLock ==
    /\ pc[Sweeper] = "sweep_ttl"
    /\ ttl_write_free
    /\ \E db \in {remove_collected(Now, loc[Sweeper].expired)} :
         inner' = db.inner /\ ttl' = db.ttl
    /\ loc' = [loc EXCEPT ![Sweeper].expired = {}]
    /\ pc' = [pc EXCEPT ![Sweeper] = "tick"]
    /\ UNCHANGED <<nextId, now, aof, failed, disk, seqVars, hist, permits, conn>>

F_SCARD == Req(<<N_SCARD, K>>)
F_SUNION == Req(<<N_SUNION, K, J>>)

\* k holds a set with a deadline of one second; one client asks for its
\* size, one deletes it, one asks for its union with j.
LockWork ==
    Work(<<Req(<<N_SADD, K, <<"a">>>>), F_EXPIRE1>>, 0,
         [c \in Clients |-> CASE c = 1 -> <<F_SCARD>> [] c = 2 -> <<F_DEL>>
                              [] c = 3 -> <<F_SUNION>> [] OTHER -> <<>>])

InitLocks ==
    /\ \E w \in {LockWork} :
         \E db \in {replay(Db2, w.script, 0, 1)} :
           /\ inner = db.inner
           /\ ttl = db.ttl
           /\ aof = [i \in 1..Len(w.script) |-> Rec(w.script[i], FALSE)]
           /\ now = w.start
           /\ loc = [t \in Tasks |->
                       IF t = Sweeper THEN [expired |-> {}]
                       ELSE Local(w.queues[t]) @@ [scan |-> 0, acc |-> {}]]
    /\ nextId = 1
    /\ failed = 0
    /\ disk = Disk("always", Len(aof))
    /\ nreq = 0
    /\ open = TRUE
    /\ last = Pass(Null, FALSE, Null, "skip", FALSE)
    /\ pc = [t \in Tasks |-> IF t = Sweeper THEN "tick" ELSE "read"]
    /\ hist = Hist0
    /\ permits = {}
    /\ conn = <<>>

\* A step of the connection task c.
ClientStep(c) ==
    \/ Dispatch(c)
    \/ LockCheckExpired(c)
    \/ PurgeTtlLock(c)
    \/ PurgeInnerLock(c)
    \/ LockLockedStep(c)
    \/ DelInnerLock(c)
    \/ DelTtlLock(c)
    \/ SunionLock(c)
    \/ SunionScan(c)
    \/ SunionReturn(c)
    \/ AppendStep(c)
    \/ WriteReply(c)

\* A step of the sweeper task.
SweeperStep == LockSweepCollect \/ SweepInnerLock \/ SweepTtlLock

NextLocks ==
    \/ \E c \in Clients : ClientStep(c)
    \/ SweeperStep
    \/ Tick

SpecLocks == InitLocks /\ [][NextLocks]_vars

\* The runtime polls every task that can run, and the clock advances.
SpecLocksFair ==
    /\ SpecLocks
    /\ \A c \in Clients : WF_vars(ClientStep(c))
    /\ WF_vars(SweeperStep)
    /\ WF_vars(Tick)

\* The next step of the task asks for the value map's lock, for the TTL
\* map's lock.
AsksInner(t) == pc[t] \in {"purge_inner", "locked", "remove"}
AsksTtl(t) == pc[t] \in {"check", "purge", "del_ttl", "su_scan", "sweep_ttl"}
HoldsTtl(t) == HoldsTtlWrite(t)
HoldsInner(t) == HoldsInnerWrite(t) \/ HoldsInnerRead(t)

\* C26: no task holds the TTL map's lock while it asks for the value map's
\* lock: where both are held, the value map's lock was taken first.
C26_ValueMapLockFirst == \A t \in Tasks : ~(HoldsTtl(t) /\ AsksInner(t))

\* Two tasks, each holding the lock the other asks for and cannot get.
CircularWait ==
    \E a, b \in Tasks :
        /\ a # b
        /\ HoldsTtl(a) /\ AsksInner(a)
        /\ HoldsInner(b) /\ AsksTtl(b)
        /\ pc[b] = "su_scan" => loc[b].scan < Len(loc[b].cmd.vals)

\* C27: every command that was started returns and every pass of the
\* sweeper finishes.
C27_EverythingReturns ==
    /\ \A c \in Clients : (pc[c] # "read") ~> (pc[c] = "read")
    /\ (pc[Sweeper] # "tick") ~> (pc[Sweeper] = "tick")

\* No state has two tasks waiting for each other's lock.
C27_NoCircularWait == ~CircularWait

(***************************************************************************)
(* SpecPop: one client in BRPOP k 1, another that pushes one element to k  *)
(* and then sends a pop of its own on the same connection, so that the pop *)
(* is read after the push was answered.                                    *)
(***************************************************************************)
F_LPOP == Req(<<N_LPOP, K>>)

PopWork(push, pop) ==
    [c \in Clients |-> CASE c = 1 -> <<F_BRPOP>> [] c = 2 -> <<push, pop>> [] OTHER -> <<>>]

InitPop ==
    \E push \in {F_LPUSH, F_RPUSH}, pop \in {F_LPOP, F_RPOP},
       start \in {"absent", "permit", "nopermit"} :
        /\ inner = [k \in Keys |-> IF start = "absent" THEN NoValue ELSE ListV(<<>>, 1)]
        /\ ttl = Db0.ttl
        /\ nextId = IF start = "absent" THEN 1 ELSE 2
        /\ now = 0
        /\ aof = CASE start = "absent" -> <<>>
                  [] start = "permit" -> <<Rec(F_LPUSH, FALSE), Rec(F_RPOP, FALSE)>>
                  [] OTHER -> <<Rec(F_LPUSH, FALSE)>>
        /\ failed = 0
        /\ disk = Disk("always", Len(aof))
        /\ nreq = 0
        /\ open = TRUE
        /\ last = Pass(Null, FALSE, Null, "skip", FALSE)
        /\ pc = [c \in Clients |-> "read"]
        /\ loc = [c \in Clients |-> Local(PopWork(push, pop)[c])]
        /\ hist = Hist0
        /\ permits = IF start = "permit" THEN {1} ELSE {}
        /\ conn = <<>>

NextPop ==
    \/ \E c \in Clients :
         \/ Dispatch(c)
         \/ CheckExpired(c)
         \/ LockedStep(c)
         \/ AppendStep(c)
         \/ WriteReply(c)
         \/ BrpopPass(c)
         \/ BrpopAwait(c)
         \/ BrpopWoken(c)
         \/ BrpopTimeout(c)
         \/ BrpopPoll(c)
         \/ BrpopSleepEnd(c)
    \/ Tick

SpecPop == InitPop /\ [][NextPop]_vars

\* The pop that client 2 sent after its push has been answered with r.
PopAnswered(r) == Len(hist.replies[2]) = 2 /\ hist.replies[2][2] = r

\* C21: an element pushed while the BRPOP was parked in notified() or in
\* its sleep, its deadline ahead, is not handed to the pop that was sent
\* after the push: that pop finds the list empty.
C21_BlockedConsumerFirst ==
    hist.early = "suspended" /\ Len(hist.replies[2]) = 2 => PopAnswered(Null)

\* The same for a BRPOP parked in notified(), which the push wakes.
C21_NotifiedConsumerFirst ==
    (hist.early = "suspended" /\ Len(hist.replies[2]) = 2 /\ loc[1].notify # 0)
        => PopAnswered(Null)

(***************************************************************************)
(* SpecList: one connection that pushes to the list k and reads ranges of  *)
(* it.  The indices of LRANGE run over -MaxIndex..MaxIndex, the list grows *)
(* to MaxList requests' worth of elements.                                 *)
(***************************************************************************)
MaxIndex == 4
MaxList == 2

\* The decimal text of an index.
IndexText(i) == IF i < 0 THEN <<"-">> \o ToDec(0 - i) ELSE ToDec(i)

Pushes ==
    { Req(<<N_LPUSH, K, <<"a">>, <<"b">>>>), Req(<<N_LPUSH, K, <<"c">>>>),
      Req(<<N_RPUSH, K, <<"a">>, <<"b">>>>), Req(<<N_RPUSH, K, <<"c">>>>) }

Ranges ==
    { Req(<<N_LRANGE, K, IndexText(s), IndexText(e)>>) :
        s \in (0 - MaxIndex)..MaxIndex, e \in (0 - MaxIndex)..MaxIndex }

ListRequests == Pushes \cup Ranges

ParsedList == [f \in ListRequests |-> TryFrom(f)]

InitList ==
    /\ InitDb
    /\ now = 0
    /\ aof = <<>>
    /\ failed = 0
    /\ disk = Disk("always", 0)
    /\ nreq = 0
    /\ open = TRUE
    /\ last = Pass(Null, FALSE, Null, "skip", FALSE)
    /\ pc = <<>> /\ loc = <<>> /\ hist = <<>> /\ permits = {} /\ conn = <<>>

\* One pass of the connection loop on a push; the append and the write
\* succeed.
ServePush ==
    /\ nreq < MaxList
    /\ \E f \in Pushes :
         \E r \in {Handle(f, ParsedList[f])} : ServeFrame(f, ParsedList[f], r, "ok", TRUE)
    /\ nreq' = nreq + 1
    /\ UNCHANGED <<now, taskVars, conn>>

\* One pass of the connection loop on an LRANGE.
ServeRange ==
    /\ nreq <= MaxList
    /\ \E f \in Ranges :
         \E r \in {Handle(f, ParsedList[f])} : ServeFrame(f, ParsedList[f], r, "ok", TRUE)
    /\ nreq' = nreq + 1
    /\ UNCHANGED <<now, taskVars, conn>>

NextList == ServePush \/ ServeRange

SpecList == InitList /\ [][NextList]_vars

\* The elements of a reply that is an array of bulk strings.
Elements(reply) == [i \in 1..Len(reply.a) |-> reply.a[i].s]

\* The list under k (empty when k is absent).
ListOf(m) == IF m[K].t = "List" THEN m[K].l ELSE <<>>

\* What LRANGE k 0 -1 answers in the keyspace m.
WholeList(m) == Elements(lrange_locked(m, K, 0, -1).reply)

\* C23: LPUSH k v1..vn puts the values at the head one by one, so that the
\* whole list reads vn..v1 and then the old contents; RPUSH appends v1..vn
\* in order; both create the list and answer its new length.
C23_PushOrder ==
    [][ (Served /\ ServedCmd.op \in {"LPush", "RPush"})
        => /\ inner'[K].t = "List"
           /\ last'.reply = Integer(Len(ListOf(inner)) + Len(ServedCmd.vals))
           /\ WholeList(inner') =
                 IF ServedCmd.op = "LPush"
                 THEN Reverse(ServedCmd.vals) \o WholeList(inner)
                 ELSE WholeList(inner) \o ServedCmd.vals ]_vars

\* A list of three or more elements has been built by pushes on both ends,
\* one of them an LPUSH of two values.
C23_Witness ==
    /\ nreq >= 2
    /\ Len(ListOf(inner)) >= 3
    /\ TryFrom(last.frame).cmd.op = "LPush"
    /\ Len(TryFrom(last.frame).cmd.vals) = 2
    /\ last.reply = Integer(Len(ListOf(inner)))

\* The indices of LRANGE as the claim normalises them: a negative index
\* counts from the tail.
FromTail(x, len) == IF x < 0 THEN len + x ELSE x

\* The elements s..e (counted from 0) of a list, s raised to 0 and e lowered
\* to the last index; nothing when s > e or s is past the end.
Slice(l, s, e) ==
    IF s > e \/ s >= Len(l) \/ e < 0 THEN <<>>
    ELSE SubSeq(l, Max(s, 0) + 1, Min(e, Len(l) - 1) + 1)

\* C24: LRANGE k start stop answers the elements between the two indices,
\* negative ones counted from the tail, and the empty array when the start
\* is after the stop or past the end, or the stop before the first element.
C24_RangeNormalised ==
    [][ (Served /\ ServedCmd.op = "LRange")
        => /\ last'.reply.t = "Array"
           /\ Elements(last'.reply) =
                 Slice(ListOf(inner), Max(FromTail(ServedCmd.num, Len(ListOf(inner))), 0),
                       FromTail(ServedCmd.num2, Len(ListOf(inner)))) ]_vars

\* The same for the ranges whose stop is not before the first element.
C24_StopInList ==
    [][ (Served /\ ServedCmd.op = "LRange"
           /\ FromTail(ServedCmd.num2, Len(ListOf(inner))) >= 0)
        => /\ last'.reply.t = "Array"
           /\ Elements(last'.reply) =
                 Slice(ListOf(inner), Max(FromTail(ServedCmd.num, Len(ListOf(inner))), 0),
                       FromTail(ServedCmd.num2, Len(ListOf(inner)))) ]_vars

(***************************************************************************)
(* SpecCodec: a frame is encoded and the bytes are parsed back.            *)
(*   conn.frame   the frame                                                *)
(*   conn.bytes   encode_frame's result                                    *)
(*   conn.parsed  parse_frame's result on these bytes                      *)
(*   conn.step    "frame", "encoded", "parsed"                             *)
(***************************************************************************)
\* The longest text of a Simple, Error or Bulk frame, and the longest array.
MaxBytes == 3
MaxItems == 2

SeqsUpTo(set, n) == UNION {[1..k -> set] : k \in 0..n}

\* Line frames hold no CR and no LF; bulk strings hold any byte.
LineBytes == {"a", "+", "$"}
BulkBytes == {"a", "$", CR, LF}

Leaves ==
    {Simple(s) : s \in SeqsUpTo(LineBytes, MaxBytes)}
    \cup {Error(s) : s \in SeqsUpTo(LineBytes, MaxBytes)}
    \cup {Integer(i) : i \in I64Min..I64Max}
    \cup {Bulk(s) : s \in SeqsUpTo(BulkBytes, MaxBytes)}
    \cup {Null}

\* Items of arrays: some leaves, and arrays of them.
Items == {Null, Integer(-1), Bulk(<<>>), Bulk(CRLF), Bulk(<<"a", CR>>), Simple(<<"a">>), Error(<<>>)}
Inner == {Array(<<>>), Array(<<Null>>), Array(<<Bulk(CRLF), Integer(-1)>>)}

CodecFrames ==
    Leaves \cup {Array(a) : a \in SeqsUpTo(Items \cup Inner, MaxItems)}
           \cup {Array(<<Array(<<x>>)>>) : x \in Inner}

InitCodec ==
    /\ InitDb
    /\ now = 0
    /\ aof = <<>>
    /\ failed = 0
    /\ disk = Disk("always", 0)
    /\ nreq = 0
    /\ open = TRUE
    /\ last = Pass(Null, FALSE, Null, "skip", FALSE)
    /\ pc = <<>> /\ loc = <<>> /\ hist = <<>> /\ permits = {}
    /\ \E f \in CodecFrames :
         conn = [frame |-> f, bytes |-> <<>>, parsed |-> Failed("Incomplete"), step |-> "frame"]

\* encoder.rs: encode_frame(&frame)
Encode ==
    /\ conn.step = "frame"
    /\ conn' = [conn EXCEPT !.bytes = encode_frame(conn.frame), !.step = "encoded"]
    /\ UNCHANGED <<dbVars, now, aof, failed, disk, seqVars, taskVars>>

\* parser.rs: parse_frame(&bytes)
Decode ==
    /\ conn.step = "encoded"
    /\ conn' = [conn EXCEPT !.parsed = parse_frame(conn.bytes), !.step = "parsed"]
    /\ UNCHANGED <<dbVars, now, aof, failed, disk, seqVars, taskVars>>

NextCodec == Encode \/ Decode

SpecCodec == InitCodec /\ [][NextCodec]_vars

\* C25: parsing the bytes that encode_frame gives for a frame returns that
\* frame and the number of the bytes.
C25_RoundTrip ==
    conn.step = "parsed" => conn.parsed = PR("Ok", conn.frame, Len(conn.bytes))

\* A nested array with a Null and a bulk string that holds CRLF has made the
\* round trip.
C25_Witness ==
    /\ conn.step = "parsed"
    /\ conn.frame = Array(<<Array(<<Bulk(CRLF), Integer(-1)>>), Null>>)
    /\ conn.parsed.st = "Ok"
    /\ conn.parsed.used = Len(conn.bytes)

(***************************************************************************)
(* SpecSweep: the locks of SpecLocks, with two keys that expire: the       *)
(* clients only ever name j, and k is left to the sweeper.                 *)
(***************************************************************************)
F_SCARDJ == Req(<<N_SCARD, J>>)
F_DELJ == Req(<<N_DEL, J>>)
F_EXPIREJ == Req(<<N_EXPIRE, J, <<"1">>>>)

SweepWork ==
    Work(<<Req(<<N_SADD, K, <<"a">>>>), F_EXPIRE1, Req(<<N_SADD, J, <<"a">>>>), F_EXPIREJ>>, 0,
         [c \in Clients |-> CASE c = 1 -> <<F_SCARDJ>> [] c = 2 -> <<F_DELJ>>
                              [] OTHER -> <<>>])

InitSweep ==
    /\ \E w \in {SweepWork} :
         \E db \in {replay(Db2, w.script, 0, 1)} :
           /\ inner = db.inner
           /\ ttl = db.ttl
           /\ aof = [i \in 1..Len(w.script) |-> Rec(w.script[i], FALSE)]
           /\ now = w.start
           /\ loc = [t \in Tasks |->
                       IF t = Sweeper THEN [expired |-> {}]
                       ELSE Local(w.queues[t]) @@ [scan |-> 0, acc |-> {}]]
    /\ nextId = 1
    /\ failed = 0
    /\ disk = Disk("always", Len(aof))
    /\ nreq = 0
    /\ open = TRUE
    /\ last = Pass(Null, FALSE, Null, "skip", FALSE)
    /\ pc = [t \in Tasks |-> IF t = Sweeper THEN "tick" ELSE "read"]
    /\ hist = Hist0
    /\ permits = {}
    /\ conn = <<>>

\* A step of a connection task of this workload (no SUNION is sent).
SweepClientStep(c) ==
    \/ Dispatch(c)
    \/ LockCheckExpired(c)
    \/ PurgeTtlLock(c)
    \/ PurgeInnerLock(c)
    \/ LockLockedStep(c)
    \/ DelInnerLock(c)
    \/ DelTtlLock(c)
    \/ AppendStep(c)
    \/ WriteReply(c)

NextSweep ==
    \/ \E c \in Clients : SweepClientStep(c)
    \/ SweeperStep
    \/ Tick

SpecSweep == InitSweep /\ [][NextSweep]_vars

\* The sweeper runs at every tick of its interval, the runtime polls every
\* task that can run, and the clock advances.
SpecSweepFair ==
    /\ SpecSweep
    /\ \A c \in Clients : WF_vars(SweepClientStep(c))
    /\ WF_vars(SweeperStep)
    /\ WF_vars(Tick)

\* The key is in neither map.
Swept(key) == inner[key].t = "None" /\ ttl[key] = NoTtl

\* C31: k, which no client names, is in neither map some time after its
\* deadline has passed.
C31_ExpiredIsSwept == is_expired(ttl, K, now) ~> Swept(K)

\* The sweeper alone: the same with no client ever sending a request.
C31_SweptWhenAlone ==
    (is_expired(ttl, K, now) /\ \A c \in Clients : loc[c].i = 0 /\ pc[c] = "read")
        ~> (Swept(K) \/ \E c \in Clients : pc[c] # "read")

(***************************************************************************)
(* SpecQueue: three clients on the list k: one in BRPOP, one that pushes a *)
(* and b with LPUSH or RPUSH, one that pops with LPOP or RPOP.  The list   *)
(* starts absent, or empty after a push and a pop (with the permit the     *)
(* push stored on its Notify, or without it).                              *)
(***************************************************************************)
F_LPUSH2 == Req(<<N_LPUSH, K, <<"a">>, <<"b">>>>)
F_RPUSH2 == Req(<<N_RPUSH, K, <<"a">>, <<"b">>>>)

QueueWork(push, pop) ==
    [c \in Clients |-> CASE c = 1 -> <<F_BRPOP>> [] c = 2 -> <<push>>
                         [] c = 3 -> <<pop>> [] OTHER -> <<>>]

InitQueue ==
    \E push \in {F_LPUSH2, F_RPUSH2}, pop \in {F_LPOP, F_RPOP},
       start \in {"absent", "permit", "nopermit"} :
        /\ inner = [k \in Keys |-> IF start = "absent" THEN NoValue ELSE ListV(<<>>, 1)]
        /\ ttl = Db0.ttl
        /\ nextId = IF start = "absent" THEN 1 ELSE 2
        /\ now = 0
        /\ aof = <<>>
        /\ failed = 0
        /\ disk = Disk("always", 0)
        /\ nreq = 0
        /\ open = TRUE
        /\ last = Pass(Null, FALSE, Null, "skip", FALSE)
        /\ pc = [c \in Clients |-> "read"]
        /\ loc = [c \in Clients |-> Local(QueueWork(push, pop)[c])]
        /\ hist = Hist0
        /\ permits = IF start = "permit" THEN {1} ELSE {}
        /\ conn = <<>>

NextQueue ==
    \/ \E c \in Clients :
         \/ Dispatch(c)
         \/ CheckExpired(c)
         \/ LockedStep(c)
         \/ AppendStep(c)
         \/ WriteReply(c)
         \/ BrpopPass(c)
         \/ BrpopAwait(c)
         \/ BrpopWoken(c)
         \/ BrpopTimeout(c)
         \/ BrpopPoll(c)
         \/ BrpopSleepEnd(c)
    \/ Tick

SpecQueue == InitQueue /\ [][NextQueue]_vars

\* The element a reply hands out: LPOP and RPOP answer it as a bulk string,
\* BRPOP as the second item of [key, element].
Handed(reply) ==
    CASE reply.t = "Bulk" -> <<reply.s>>
      [] reply.t = "Array" /\ Len(reply.a) = 2 -> <<reply.a[2].s>>
      [] OTHER -> <<>>

RECURSIVE HandedAll(_)
HandedAll(replies) ==
    IF replies = <<>> THEN <<>> ELSE Handed(Head(replies)) \o HandedAll(Tail(replies))

\* The elements the pops of client c have returned: in the replies written,
\* and in the reply of a command that has returned and is not written yet.
PoppedBy(c) ==
    HandedAll(hist.replies[c])
      \o (IF pc[c] \in {"append", "write"} THEN Handed(loc[c].reply) ELSE <<>>)

RECURSIVE PoppedUpTo(_)
PoppedUpTo(n) == IF n = 0 THEN <<>> ELSE PoppedUpTo(n - 1) \o PoppedBy(n)
PoppedAll == PoppedUpTo(NClients)

\* The values of the pushes that have been applied.
Pushed ==
    UNION {Range(loc[tag[1]].queue[tag[2]].a) \ {Bulk(N_LPUSH), Bulk(N_RPUSH), Bulk(K)} :
             tag \in {t \in Range(hist.applied) :
                        TryFrom(loc[t[1]].queue[t[2]]).cmd.op \in {"LPush", "RPush"}}}

NoRepeat(seq) == Cardinality(Range(seq)) = Len(seq)

\* C32: no element is returned by two pops or returned and still in the
\* list, and the elements returned together with those in the list are the
\* elements pushed.
C32_ElementsConserved ==
    /\ NoRepeat(PoppedAll \o ListOf(inner))
    /\ Range(PoppedAll \o ListOf(inner)) = {b.s : b \in Pushed}

\* Every client is done, both elements were pushed, and the BRPOP and the
\* pop have each returned one of them.
C32_Witness ==
    /\ \A c \in Clients : pc[c] = "read" /\ loc[c].i = Len(loc[c].queue)
    /\ Len(PoppedBy(1)) = 1 /\ Len(PoppedBy(3)) = 1
    /\ ListOf(inner) = <<>>

(***************************************************************************)
(* SpecWaiters: two clients in BRPOP on the list k, a third pushes two     *)
(* values in one LPUSH or RPUSH.  The list starts absent, or empty after a *)
(* push and a pop (with the permit the push stored on its Notify, or       *)
(* without it).                                                            *)
(***************************************************************************)
WaitersWork(push) ==
    [c \in Clients |-> CASE c = 1 -> <<F_BRPOP>> [] c = 2 -> <<F_BRPOP>>
                         [] c = 3 -> <<push>> [] OTHER -> <<>>]

InitWaiters ==
    \E push \in {F_LPUSH2, F_RPUSH2}, start \in {"absent", "permit", "nopermit"} :
        /\ inner = [k \in Keys |-> IF start = "absent" THEN NoValue ELSE ListV(<<>>, 1)]
        /\ ttl = Db0.ttl
        /\ nextId = IF start = "absent" THEN 1 ELSE 2
        /\ now = 0
        /\ aof = <<>>
        /\ failed = 0
        /\ disk = Disk("always", 0)
        /\ nreq = 0
        /\ open = TRUE
        /\ last = Pass(Null, FALSE, Null, "skip", FALSE)
        /\ pc = [c \in Clients |-> "read"]
        /\ loc = [c \in Clients |-> Local(WaitersWork(push)[c])]
        /\ hist = Hist0
        /\ permits = IF start = "permit" THEN {1} ELSE {}
        /\ conn = <<>>

WaitersStep(c) ==
    \/ Dispatch(c)
    \/ CheckExpired(c)
    \/ LockedStep(c)
    \/ AppendStep(c)
    \/ WriteReply(c)
    \/ BrpopPass(c)
    \/ BrpopAwait(c)
    \/ BrpopWoken(c)
    \/ BrpopTimeout(c)
    \/ BrpopPoll(c)
    \/ BrpopSleepEnd(c)

NextWaiters == (\E c \in Clients : WaitersStep(c)) \/ Tick

SpecWaiters == InitWaiters /\ [][NextWaiters]_vars

\* Every connection task is polled again when it can go on, and the clock
\* advances.
SpecWaitersFair ==
    SpecWaiters /\ (\A c \in Clients : WF_vars(WaitersStep(c))) /\ WF_vars(Tick)

\* Both BRPOP tasks are parked on the Notify of the list when the push puts
\* its two values in: the state right after the push.  Their deadlines are
\* instants the clock reaches.
BothBlockedAtPush ==
    /\ pc[1] = "br_wait" /\ pc[2] = "br_wait"
    /\ loc[1].deadline <= MaxTime /\ loc[2].deadline <= MaxTime
    /\ Len(ListOf(inner)) = 2
    /\ pc[3] \in {"append", "write"}

\* C33: when two clients are blocked in BRPOP on one list and a single push
\* adds two elements, each of the two returns an element.
C33_EveryWaiterServed ==
    BothBlockedAtPush ~> (Len(PoppedBy(1)) = 1 /\ Len(PoppedBy(2)) = 1)

\* The waiter that notify_one chose does return an element: the other one
\* sleeps on.
C33_OneWaiterServed ==
    BothBlockedAtPush ~> (Len(PoppedBy(1)) = 1 \/ Len(PoppedBy(2)) = 1)

\* A BRPOP whose wait ends at the deadline returns Null only from an empty
\* list.
C33_NullOnlyWhenEmpty ==
    [][\A c \in Clients :
         (pc[c] = "br_wait" /\ pc'[c] = "write" /\ loc'[c].reply = Null) => ListOf(inner) = <<>>]_vars

(***************************************************************************)
(* SpecRecreate: one client in BRPOP on the list k, one that deletes k,    *)
(* one that pushes a value, which creates k again when the DEL came first. *)
(***************************************************************************)
RecreateWork ==
    [c \in Clients |-> CASE c = 1 -> <<F_BRPOP>> [] c = 2 -> <<F_DEL>>
                         [] c = 3 -> <<F_RPUSH>> [] OTHER -> <<>>]

InitRecreate ==
    \E start \in {"absent", "permit", "nopermit"} :
        /\ inner = [k \in Keys |-> IF start = "absent" THEN NoValue ELSE ListV(<<>>, 1)]
        /\ ttl = Db0.ttl
        /\ nextId = IF start = "absent" THEN 1 ELSE 2
        /\ now = 0
        /\ aof = <<>>
        /\ failed = 0
        /\ disk = Disk("always", 0)
        /\ nreq = 0
        /\ open = TRUE
        /\ last = Pass(Null, FALSE, Null, "skip", FALSE)
        /\ pc = [c \in Clients |-> "read"]
        /\ loc = [c \in Clients |-> Local(RecreateWork[c])]
        /\ hist = Hist0
        /\ permits = IF start = "permit" THEN {1} ELSE {}
        /\ conn = <<>>

RecreateStep(c) ==
    \/ Dispatch(c)
    \/ CheckExpired(c)
    \/ LockedStep(c)
    \/ DelStep(c)
    \/ AppendStep(c)
    \/ WriteReply(c)
    \/ BrpopPass(c)
    \/ BrpopAwait(c)
    \/ BrpopWoken(c)
    \/ BrpopTimeout(c)
    \/ BrpopPoll(c)
    \/ BrpopSleepEnd(c)

NextRecreate == (\E c \in Clients : RecreateStep(c)) \/ Tick

SpecRecreate == InitRecreate /\ [][NextRecreate]_vars

SpecRecreateFair ==
    SpecRecreate /\ (\A c \in Clients : WF_vars(RecreateStep(c))) /\ WF_vars(Tick)

\* The BRPOP task is parked, before its deadline, on the Notify of a list
\* that was removed, and the list created since under the same key holds an
\* element.  The deadline is an instant the clock reaches.
WaitsOnRemovedList ==
    /\ pc[1] = "br_wait"
    /\ now < loc[1].deadline /\ loc[1].deadline <= MaxTime
    /\ ListOf(inner) # <<>>
    /\ loc[1].notify # inner[K].n

\* C34: a BRPOP that waits on a list which is removed and created again by a
\* push before the deadline returns the pushed element.
C34_ServedAfterRecreate == WaitsOnRemovedList ~> (Len(PoppedBy(1)) = 1)

\* Without the removal the parked task is notified by the push.
C34_NotifiedOnSameList ==
    [][\A c \in Clients :
         (/\ pc[c] = "locked" /\ pc'[c] # "locked" /\ loc[c].cmd.op = "RPush"
          /\ pc[1] = "br_wait" /\ loc[1].notify = inner[K].n)
         => loc'[1].woken]_vars

(***************************************************************************)
(* SpecRestart: the server is started, stopped and started again on one    *)
(* journal file, with no client connected.  In this specification          *)
(*   aof         is the file's bytes                                       *)
(*   pc.main     is "boot" while the process is down or has not read the   *)
(*               file yet, "serving" once server::run is reached           *)
(*   nreq        counts the stops                                          *)
(*   conn.file   is the file as it was before the first start              *)
(*   conn.first  is the keyspace the first start gave, <<>> before the     *)
(*               first stop                                                *)
(***************************************************************************)
MaxJournal == 3
MaxRestart == 2

JournalRequests ==
    {F_SET1, F_INCR, F_EXPIRE0, F_EXPIRE1, F_RPUSH, F_DEL, Req(<<N_APPEND, K, <<"2">>>>)}

RECURSIVE JournalsUpTo(_)
JournalsUpTo(n) ==
    IF n = 0 THEN {<<>>}
    ELSE JournalsUpTo(n - 1)
           \cup {Append(j, f) : j \in {h \in JournalsUpTo(n - 1) : Len(h) = n - 1},
                                f \in JournalRequests}

\* What a client finds in a keyspace at time t: the values and, for a key
\* with a deadline, the time left.
Yield(m, t, at) ==
    [inner |-> m, left |-> [k \in DOMAIN t |-> IF t[k] = NoTtl THEN NoTtl ELSE t[k] - at]]

InitRestart ==
    /\ \E j \in JournalsUpTo(MaxJournal) : aof = encode_all(j)
    /\ inner = DbR.inner
    /\ ttl = DbR.ttl
    /\ nextId = 1
    /\ now = 0
    /\ failed = 0
    /\ disk = Disk("always", Len(aof))
    /\ nreq = 0
    /\ open = TRUE
    /\ last = Pass(Null, FALSE, Null, "skip", FALSE)
    /\ pc = [main |-> "boot"]
    /\ hist = <<>>
    /\ loc = <<>> /\ permits = {}
    /\ conn = [file |-> aof, first |-> <<>>]

\* The process is stopped: its keyspace is gone, the file stays.
Shutdown ==
    /\ pc.main = "serving"
    /\ nreq < MaxRestart
    /\ nreq' = nreq + 1
    /\ conn' = IF conn.first = <<>> THEN [conn EXCEPT !.first = Yield(inner, ttl, now)] ELSE conn
    /\ inner' = DbR.inner
    /\ ttl' = DbR.ttl
    /\ pc' = [main |-> "boot"]
    /\ hist' = <<>>
    /\ UNCHANGED <<nextId, now, aof, failed, disk, open, last, loc, permits>>

\* Time passes while the process is down.
DownTick == pc.main = "boot" /\ Tick

NextRestart == Startup \/ Shutdown \/ DownTick

SpecRestart == InitRestart /\ [][NextRestart]_vars

\* C36: the replay at start-up appends nothing to the journal, whose
\* content stays what it was, and every later start gives the keyspace the
\* first start gave.
C36_ReplayAppendsNothing ==
    /\ aof = conn.file
    /\ (pc.main = "serving" /\ conn.first # <<>>) => Yield(inner, ttl, now) = conn.first

\* The server serves after its second restart, later than the first start,
\* on a journal that left a key with a value and a deadline.
C36_Witness ==
    /\ pc.main = "serving"
    /\ nreq = 2
    /\ now > 0
    /\ aof # <<>>
    /\ \E k \in KeysR : inner[k].t # "None" /\ ttl[k] # NoTtl

(***************************************************************************)
(* SpecIncr: one connection that sets k to a value at or near the ends of  *)
(* the i64 range and increments it.  `curr + 1` and `curr + amt` are plain *)
(* i64 additions: on overflow a build with overflow checks panics, a build *)
(* without them wraps around.                                              *)
(***************************************************************************)
MaxIncrReq == 3

IncrRequests ==
    { Req(<<N_SET, K, ToDec(I64Max)>>), Req(<<N_SET, K, ToDec(I64Min)>>),
      Req(<<N_SET, K, ToDec(I64Max - 1)>>),
      Req(<<N_INCR, K>>), Req(<<N_INCRBY, K, <<"1">>>>), Req(<<N_INCRBY, K, <<"-", "1">>>>),
      Req(<<N_INCRBY, K, ToDec(I64Max)>>), Req(<<N_GET, K>>) }

ParsedIncr == [f \in IncrRequests |-> TryFrom(f)]

\* db.rs 243 and 272: the sum of the stored value (0 for an absent key) and
\* the increment is outside the i64 range.
Overflows(m, cmd) ==
    /\ cmd.op \in {"Incr", "IncrBy"}
    /\ m[cmd.key].t \in {"String", "None"}
    /\ m[cmd.key].t = "String" => ParseI64(m[cmd.key].s).ok
    /\ LET curr == IF m[cmd.key].t = "String" THEN ParseI64(m[cmd.key].s).v ELSE 0
           sum == curr + (IF cmd.op = "Incr" THEN 1 ELSE cmd.num)
       IN  sum < I64Min \/ sum > I64Max

\* One pass of the connection loop; on overflow this is the build without
\* overflow checks, where the sum wraps around.
ServeIncr ==
    /\ open
    /\ nreq < MaxIncrReq
    /\ \E f \in IncrRequests :
         \E r \in {Handle(f, ParsedIncr[f])} :
           \E out \in AppendOutcomes, wr \in BOOLEAN : ServeFrame(f, ParsedIncr[f], r, out, wr)
    /\ nreq' = nreq + 1
    /\ UNCHANGED <<now, taskVars, conn>>

\* The build with overflow checks: the addition panics under the write
\* lock, before the insert; the connection's task dies without a reply and
\* the socket is closed.
IncrPanic ==
    /\ open
    /\ nreq < MaxIncrReq
    /\ \E f \in IncrRequests :
         /\ ParsedIncr[f].ok
         /\ Overflows(inner, ParsedIncr[f].cmd)
         /\ last' = Pass(f, TRUE, Null, "skip", FALSE)
    /\ open' = FALSE
    /\ nreq' = nreq + 1
    /\ UNCHANGED <<dbVars, now, aof, failed, disk, taskVars, conn>>

NextIncr == ServeIncr \/ IncrPanic

SpecIncr == Init /\ [][NextIncr]_vars

\* The request served in this step is an INCR or INCRBY whose sum overflows.
OverflowServed ==
    /\ nreq' = nreq + 1
    /\ last'.frame \in IncrRequests
    /\ ParsedIncr[last'.frame].ok
    /\ Overflows(inner, ParsedIncr[last'.frame].cmd)

\* C37: an INCR or INCRBY whose sum is outside the i64 range answers an
\* error frame and leaves the stored value as it was, and the connection
\* goes on.
C37_OverflowIsAnError ==
    [][OverflowServed =>
         /\ last'.reply.t = "Error"
         /\ inner' = inner
         /\ last'.wrote => open']_vars

\* Whatever the build, the value stored is the decimal text of an i64.
C37_StoredInRange ==
    inner[K].t = "String" => ParseI64(inner[K].s).ok

(***************************************************************************)
(* skiplist.rs: the skip list of a sorted set.                             *)
(*   A node is named by a number (its Arc); as a position, 0 is the head,  *)
(*   and as a forward pointer 0 is None.  The levels, 0..MAX_LEVEL-1 in    *)
(*   the source, are 1..MAX_LEVEL here.                                    *)
(*   list.head     the head's forward pointers, one per level              *)
(*   list.level    the levels in use                                       *)
(*   list.length   the length field                                        *)
(*   list.nodes    the nodes: score, member, forward pointers              *)
(* A score is an f64: a number, or NaN, which is neither less than,        *)
(* greater than nor equal to any score.                                    *)
(***************************************************************************)
\* line 5: 16 in the source; random_level draws any level up to it
MAX_LEVEL == 2

Num(v) == [nan |-> FALSE, v |-> v]
NaN == [nan |-> TRUE, v |-> 0]

\* f64::partial_cmp, and the operators < and > on f64
partial_cmp(a, b) ==
    IF a.nan \/ b.nan THEN "None"
    ELSE IF a.v < b.v THEN "Less" ELSE IF a.v > b.v THEN "Greater" ELSE "Equal"
F64Lt(a, b) == partial_cmp(a, b) = "Less"
F64Gt(a, b) == partial_cmp(a, b) = "Greater"

\* <[u8]>::cmp: lexicographic, byte by byte
Byte(c) == CHOOSE i \in 1..26 : Lower[i] = c

RECURSIVE cmp_bytes(_, _)
cmp_bytes(a, b) ==
    IF a = <<>> THEN (IF b = <<>> THEN "Equal" ELSE "Less")
    ELSE IF b = <<>> THEN "Greater"
    ELSE IF Byte(a[1]) < Byte(b[1]) THEN "Less"
    ELSE IF Byte(a[1]) > Byte(b[1]) THEN "Greater"
    ELSE cmp_bytes(Tail(a), Tail(b))

\* lines 60-66: partial_cmp(..).unwrap_or(Equal), then the members
compare(a_score, a_member, b_score, b_member) ==
    LET o == partial_cmp(a_score, b_score)
    IN  CASE o = "Less" -> "Less"
          [] o = "Greater" -> "Greater"
          [] OTHER -> cmp_bytes(a_member, b_member)

\* lines 41-48: SkipList::new
SkipListNew ==
    [head |-> [l \in 1..MAX_LEVEL |-> 0], level |-> 1, length |-> 0, nodes |-> <<>>]

\* levels[lvl].forward of the node at a position
Fwd(list, at, lvl) == IF at = 0 THEN list.head[lvl] ELSE list.nodes[at].levels[lvl]

\* The Arc of a new node: a name no node of the list has.
NewRef(list) ==
    CHOOSE i \in 1..(Cardinality(DOMAIN list.nodes) + 1) :
        /\ i \notin DOMAIN list.nodes
        /\ \A j \in 1..(i - 1) : j \in DOMAIN list.nodes

\* lines 154-160: the first node of level 0 that holds the member
RECURSIVE find_member(_, _, _)
find_member(list, at, member) ==
    IF at = 0 THEN 0
    ELSE IF list.nodes[at].member = member THEN at
    ELSE find_member(list, list.nodes[at].levels[1], member)

\* lines 169-183: on one level, the position whose forward pointer is the
\* target; -1 when the chain ends before it
RECURSIVE pred_of(_, _, _, _)
pred_of(list, current, lvl, target) ==
    IF Fwd(list, current, lvl) = 0 THEN -1
    ELSE IF Fwd(list, current, lvl) = target THEN current
    ELSE pred_of(list, Fwd(list, current, lvl), lvl, target)

\* lines 187-193: the level count drops while the top level is empty
RECURSIVE shrink(_, _)
shrink(head, level) ==
    IF level > 1 /\ head[level] = 0 THEN shrink(head, level - 1) ELSE level

\* lines 162-196: the target unlinked from the levels in use, pred[l] being
\* where level l leads to it
unlink(list, target, pred) ==
    LET cut(levels, at) ==
            [l \in DOMAIN levels |->
               IF l <= list.level /\ pred[l] = at
               THEN list.nodes[target].levels[l] ELSE levels[l]]
    IN  [head |-> cut(list.head, 0),
         level |-> shrink(cut(list.head, 0), list.level),
         length |-> list.length - 1,
         nodes |-> [i \in DOMAIN list.nodes \ {target} |->
                      [list.nodes[i] EXCEPT !.levels = cut(@, i)]]]

\* lines 150-197
remove_member(list, member) ==
    CHOOSE r \in
        {IF target = 0 THEN [list |-> list, removed |-> FALSE]
         ELSE [list |-> CHOOSE u \in {unlink(list, target, pred) :
                                        pred \in {[l \in 1..list.level |->
                                                     pred_of(list, 0, l, target)]}} : TRUE,
               removed |-> TRUE] :
           target \in {find_member(list, list.head[1], member)}} : TRUE

\* lines 78-93, one level: forward while the next node is less than the new
\* entry
RECURSIVE seek(_, _, _, _, _)
seek(list, current, lvl, score, member) ==
    IF /\ Fwd(list, current, lvl) # 0
       /\ compare(list.nodes[Fwd(list, current, lvl)].score,
                  list.nodes[Fwd(list, current, lvl)].member, score, member) = "Less"
    THEN seek(list, Fwd(list, current, lvl), lvl, score, member)
    ELSE current

\* lines 76-94: from the top level in use down, update[lvl] is where the
\* search of the level stops
RECURSIVE find_update(_, _, _, _, _, _)
find_update(list, lvl, current, update, score, member) ==
    IF lvl = 0 THEN update
    ELSE find_update(list, lvl - 1, seek(list, current, lvl, score, member),
                     [update EXCEPT ![lvl] = seek(list, current, lvl, score, member)],
                     score, member)

\* lines 96-112: the node `new` linked after update[lvl] on the levels below
\* new_level
link_in(list, score, member, new_level, update, new) ==
    LET link(levels, at) ==
            [l \in DOMAIN levels |-> IF l <= new_level /\ update[l] = at THEN new ELSE levels[l]]
    IN  [head |-> link(list.head, 0),
         level |-> Max(list.level, new_level),
         length |-> list.length + 1,
         nodes |-> [i \in DOMAIN list.nodes \cup {new} |->
                      IF i = new
                      THEN [score |-> score, member |-> member,
                            levels |-> [l \in 1..new_level |-> Fwd(list, update[l], l)]]
                      ELSE [list.nodes[i] EXCEPT !.levels = link(@, i)]]]

\* lines 68-113 without the removal of line 69
splice(list, score, member, new_level) ==
    CHOOSE r \in
        {link_in(list, score, member, new_level, update, new) :
           update \in {find_update(list, list.level, 0, [l \in 1..MAX_LEVEL |-> 0],
                                    score, member)},
           new \in {NewRef(list)}} : TRUE

\* An insert that leaves the node the member had.
insert_kept(list, score, member, new_level) == splice(list, score, member, new_level)

\* lines 68-113: new_level is what random_level returned
insert(list, score, member, new_level) ==
    CHOOSE r \in {splice(removed.list, score, member, new_level) :
                    removed \in {remove_member(list, member)}} : TRUE

\* lines 119-134, one level: forward while the next node's score is below min
RECURSIVE seek_score(_, _, _, _)
seek_score(list, current, lvl, min) ==
    IF /\ Fwd(list, current, lvl) # 0
       /\ F64Lt(list.nodes[Fwd(list, current, lvl)].score, min)
    THEN seek_score(list, Fwd(list, current, lvl), lvl, min)
    ELSE current

RECURSIVE descend(_, _, _, _)
descend(list, lvl, current, min) ==
    IF lvl = 0 THEN current
    ELSE descend(list, lvl - 1, seek_score(list, current, lvl, min), min)

\* lines 138-145: along level 0 until a score above max
RECURSIVE collect(_, _, _)
collect(list, at, max) ==
    IF at = 0 THEN <<>>
    ELSE IF F64Gt(list.nodes[at].score, max) THEN <<>>
    ELSE <<list.nodes[at].member>> \o collect(list, list.nodes[at].levels[1], max)

\* lines 115-148
range_by_score(list, min, max) ==
    collect(list, Fwd(list, descend(list, list.level, 0, min), 1), max)

\* db.rs 765-785 on a key that holds a sorted set
zrange_by_score(list, min, max) ==
    CHOOSE r \in {Array([i \in 1..Len(members) |-> Bulk(members[i])]) :
                    members \in {range_by_score(list, min, max)}} : TRUE

(***************************************************************************)
(* SpecSkip: one skip list under inserts and removals; SpecSkipRange: the  *)
(* same under inserts, removals and range queries.                         *)
(*   conn.zset   the skip list                                             *)
(*   conn.nan    a NaN score has been inserted                             *)
(*   conn.last   the last operation: its name, its arguments, for an       *)
(*               insert whether the member was there before, for a query   *)
(*               the reply                                                 *)
(***************************************************************************)
ZMembers == {<<"a">>, <<"a", "b">>, <<"b">>}
ZScores == {Num(0), Num(1), NaN}

Op(op, member, score, max, had, out) ==
    [op |-> op, member |-> member, score |-> score, max |-> max, had |-> had, out |-> out]

InitSkip ==
    /\ InitDb
    /\ nreq = 0
    /\ open = TRUE
    /\ last = Pass(Null, FALSE, Null, "skip", FALSE)
    /\ pc = <<>> /\ loc = <<>> /\ hist = <<>> /\ permits = {}
    /\ conn = [zset |-> SkipListNew, nan |-> FALSE,
               last |-> Op("new", <<>>, Num(0), Num(0), FALSE, Null)]

Insert ==
    /\ \E score \in ZScores, member \in ZMembers, new_level \in 1..MAX_LEVEL :
         \* line 95: new_level is any level random_level can return
         conn' = [zset |-> insert(conn.zset, score, member, new_level),
                  nan |-> conn.nan \/ score.nan,
                  last |-> Op("insert", member, score, Num(0),
                              find_member(conn.zset, conn.zset.head[1], member) # 0, Null)]
    /\ UNCHANGED <<dbVars, now, aof, failed, disk, seqVars, taskVars>>

RemoveMember ==
    /\ \E member \in ZMembers :
         \E r \in {remove_member(conn.zset, member)} :
           conn' = [conn EXCEPT !.zset = r.list,
                                !.last = Op("remove", <<>>, Num(0), Num(0), r.removed, Null)]
    /\ UNCHANGED <<dbVars, now, aof, failed, disk, seqVars, taskVars>>

RangeByScore ==
    /\ \E min \in ZScores, max \in ZScores :
         conn' = [conn EXCEPT !.last = Op("range", <<>>, min, max, FALSE,
                                          zrange_by_score(conn.zset, min, max))]
    /\ UNCHANGED <<dbVars, now, aof, failed, disk, seqVars, taskVars>>

NextSkip == Insert \/ RemoveMember

SpecSkip == InitSkip /\ [][NextSkip]_vars

\* The same with range queries.
NextSkipRange == Insert \/ RemoveMember \/ RangeByScore

SpecSkipRange == InitSkip /\ [][NextSkipRange]_vars

\* The nodes of one level, from the head on.
RECURSIVE chain(_, _, _)
chain(list, at, lvl) ==
    IF at = 0 THEN <<>> ELSE <<at>> \o chain(list, list.nodes[at].levels[lvl], lvl)
Chain(list, lvl) == chain(list, list.head[lvl], lvl)

\* a is b with some elements left out.
RECURSIVE IsSubseq(_, _)
IsSubseq(a, b) ==
    IF a = <<>> THEN TRUE
    ELSE IF b = <<>> THEN FALSE
    ELSE IF a[1] = b[1] THEN IsSubseq(Tail(a), Tail(b))
    ELSE IsSubseq(a, Tail(b))

\* Each node of level 0 is less than the next one by (score, member).
Ascending(list) ==
    \A i \in 1..(Len(Chain(list, 1)) - 1) :
        compare(list.nodes[Chain(list, 1)[i]].score, list.nodes[Chain(list, 1)[i]].member,
                list.nodes[Chain(list, 1)[i + 1]].score,
                list.nodes[Chain(list, 1)[i + 1]].member) = "Less"

WellLinked(list) ==
    /\ Len(Chain(list, 1)) = list.length
    /\ \A l \in 2..MAX_LEVEL : IsSubseq(Chain(list, l), Chain(list, 1))

\* C38: after any inserts and removals, level 0 is strictly ascending by
\* (score, member), holds `length` nodes, and every higher level is level 0
\* with nodes left out.
C38_OrderedAndLinked == Ascending(conn.zset) /\ WellLinked(conn.zset)

\* The links are right whatever the scores are.
C38_Linked == WellLinked(conn.zset)

\* As long as no NaN score has been inserted, level 0 is ascending.
C38_OrderedWithoutNaN == ~conn.nan => Ascending(conn.zset)

\* The nodes a walk from the head reaches on any level.
Linked(list) == UNION {Range(Chain(list, l)) : l \in 1..MAX_LEVEL}

\* C39: a skip list never has two nodes with one member; an insert of a
\* member that is there already leaves the cardinality as it was, and after
\* any insert the member is held by one node, at the score inserted.
C39_OneNodePerMember ==
    [][conn'.zset # conn.zset =>
         \A linked \in {Linked(conn'.zset)}, walk \in {Chain(conn'.zset, 1)} :
           /\ \A n1 \in linked, n2 \in linked :
                conn'.zset.nodes[n1].member = conn'.zset.nodes[n2].member => n1 = n2
           /\ conn'.last.op = "insert" =>
                /\ conn'.zset.length = conn.zset.length + (IF conn'.last.had THEN 0 ELSE 1)
                /\ Len(walk) = conn'.zset.length
                /\ \E n \in Range(walk) :
                     /\ {h \in linked : conn'.zset.nodes[h].member = conn'.last.member} = {n}
                     /\ conn'.zset.nodes[n].score = conn'.last.score]_vars

\* A member that two other nodes surround has been inserted again with
\* another score.
C39_Witness ==
    /\ conn.last.op = "insert"
    /\ conn.last.had
    /\ conn.zset.length = 3
    /\ conn.zset.level = MAX_LEVEL
    /\ \E n \in DOMAIN conn.zset.nodes :
         /\ conn.zset.nodes[n].member = conn.last.member
         /\ conn.zset.nodes[n].score = Num(1)

\* The members of level 0 whose score s satisfies min <= s <= max, in the
\* order of level 0.
RECURSIVE Within(_, _, _, _)
Within(list, ids, min, max) ==
    IF ids = <<>> THEN <<>>
    ELSE (IF /\ partial_cmp(min, list.nodes[ids[1]].score) \in {"Less", "Equal"}
             /\ partial_cmp(list.nodes[ids[1]].score, max) \in {"Less", "Equal"}
          THEN <<Bulk(list.nodes[ids[1]].member)>> ELSE <<>>)
           \o Within(list, Tail(ids), min, max)

\* C40: range_by_score(min, max) is the members of level 0 whose score is
\* between min and max, both included, in the order of level 0.
C40_RangeIsFilter ==
    conn.last.op = "range" =>
        conn.last.out = Array(Within(conn.zset, Chain(conn.zset, 1), conn.last.score, conn.last.max))

\* The same as long as no NaN has been inserted and neither bound is NaN.
C40_RangeIsFilterWithoutNaN ==
    (conn.last.op = "range" /\ ~conn.nan /\ ~conn.last.score.nan /\ ~conn.last.max.nan) =>
        conn.last.out = Array(Within(conn.zset, Chain(conn.zset, 1), conn.last.score, conn.last.max))
====
